---- MODULE Spec2Model ----
(***************************************************************************)
(* Model of the telemetry core of eceokutan/f1-live-telemetry:             *)
(*   - telemetry/lap_buffer.py   LapBuffer (lap segmentation)              *)
(*   - telemetry/acc_backend.py  AccPacketParser, AccTelemetryWorker       *)
(*   - telemetry/ac_shared_memory.py  AcTelemetryWorker                    *)
(*                                                                         *)
(* Python lists are objects: a list is a cell of `heap`, and the program   *)
(* holds references (indices into heap).  `x.append(s)` changes the cell,  *)
(* `x = [s]` allocates a new cell.                                         *)
(***************************************************************************)
EXTENDS Integers, Sequences, FiniteSets, TLC

VARIABLES
    backend,          \* which component is driven: "lap_buffer", "acc" or "ac"
    heap,             \* the list objects: heap[r] is the content of list r
    \* ---- LapBuffer (lap_buffer.py)
    current_lap_id,   \* LapBuffer.current_lap_id (None before the first sample)
    samples,          \* LapBuffer.samples: a reference to a list
    fed,              \* the add_sample calls made so far, in order
    on_lap_complete,  \* the invocations of the on_lap_complete callback, in order
    \* ---- AccTelemetryWorker (acc_backend.py)
    pc,               \* where run() is: "idle", "loop", "done" (returned) or
                      \* "raised" (left by an exception nothing caught)
    running,          \* self.running
    stop_called,      \* whether stop() has been called
    sock,             \* the UDP socket of run(): "none", "open" or "closed"
    registered,       \* the local `registered` of run()
    connection_id,    \* self.connection_id (None until a registration succeeds)
    current_lap_samples, \* self.current_lap_samples: car_index -> list reference
    last_lap_count,   \* self.last_lap_count: car_index -> lap count
    received,         \* the outcomes of sock.recvfrom so far: datagrams and timeouts
    arrivals,         \* the car updates handled so far: [t, car_index, laps]
    sent,             \* the packets given to sock.sendto, in order
    status_update,    \* the emissions of the status_update signal
    lap_completed,    \* the emissions of the lap_completed signal
    realtime_sample,  \* the emissions of the realtime_sample signal
    live_data_update, \* the dicts emitted by the live_data_update signal (as a set)
    \* ---- AcTelemetryWorker (ac_shared_memory.py); it shares pc, running,
    \* stop_called and the signals with the UDP worker, and owns a LapBuffer
    mm,               \* mm_phys, mm_graph, mm_static: None, "open" or "closed"
    session_info_update, \* the emissions of the session_info_update signal
    \* ---- AccTelemetryWorker, continued
    track_info,       \* self.track_info
    car_data,         \* self.car_data: car_id -> the parsed entry-list dict
    sock_threads,     \* the threads that have called a method of the UDP socket
    \* ---- TorcsTelemetryWorker (backends/torcs_backend.py)
    torcs_current_lap_id, \* its self.current_lap_id
    last_dist_raced,  \* self.last_dist_raced
    client,           \* self.client: None, "connected" or "shutdown"
    \* ---- the parser and conversion functions, applied on their own
    call,             \* the function applied and its arguments
    result,           \* what it gave back
    \* ---- MainWindow (ui/main_window.py)
    lap_table,        \* column 0 of self.lap_table: row -> lap time, None if unset
    table_writes,     \* the setItem(row, 0, ...) calls of handle_lap_complete
    ui_delivered,     \* how many lap_completed emissions the slot has handled
    \* ---- AIRaceEngineerWorker (ai/race_engineer.py)
    ai_pc,            \* where run() is: idle, new_loop, queues, agents, loop, wait, done
    ai_running,       \* self._running
    event_loop,       \* self._event_loop: None ("none"), "open" or "closed"
    telemetry_queue,  \* self.telemetry_queue: NoQueue (None) or Queue(items)
    query_queue,      \* self.query_queue: NoQueue (None) or Queue(queries)
    telemetry_task,   \* the task running _process_telemetry_queue
    query_task,       \* the task running _process_query_queue, and its query
    ai_commentary,    \* the emissions of the ai_commentary signal
    taken,            \* the queries _process_query_queue took from the queue
    submitted,        \* how many calls of process_driver_query / process_telemetry
    caller_errors,    \* the exceptions raised in the calling thread
    \* ---- TTSOutputWorker (ai/tts_output.py)
    tts_pc,           \* where run() is: idle, get, synth, playing, done
    tts_running,      \* self._running
    message_queue,    \* self.message_queue: NoQueue (None) or Queue(texts)
    tts_signals,      \* the signals the worker emitted, in order
    spoken            \* how many calls of speak

lbVars == <<current_lap_id, samples, fed, on_lap_complete>>
accState == <<pc, running, stop_called, sock, registered, connection_id,
              current_lap_samples, last_lap_count, received, arrivals>>
accOut == <<sent, status_update, lap_completed, realtime_sample, live_data_update>>
accVars == <<accState, accOut>>
acVars == <<mm, session_info_update>>
accMeta == <<track_info, car_data>>
torcsVars == <<torcs_current_lap_id, last_dist_raced, client>>
fnVars == <<call, result>>
uiVars == <<lap_table, table_writes, ui_delivered>>
aiVars == <<ai_pc, ai_running, event_loop, telemetry_queue, query_queue,
           telemetry_task, query_task, ai_commentary, taken, submitted,
           caller_errors>>
ttsVars == <<tts_pc, tts_running, message_queue, tts_signals, spoken>>
appVars == <<uiVars, aiVars, ttsVars>>
restVars == <<accMeta, sock_threads, torcsVars, fnVars, appVars>>
vars == <<backend, heap, lbVars, accVars, acVars, restVars>>

\* ------------------------------------------------------------------ bounds
MaxFeeds == 6         \* add_sample calls in one run of the LapBuffer
MaxLap == 3           \* lap ids range over 0..MaxLap
MaxPackets == 3       \* receive attempts (packets and timeouts) of one run()
MaxUdpLap == 2        \* the `laps` field of the car updates ranges over 0..MaxUdpLap
MaxTicks == 3         \* iterations of the polling loop of the shared-memory worker
MaxBuf == 4           \* length of the buffers read_string is applied to
MaxMessages == 3      \* calls of TTSOutputWorker.speak
MaxQueries == 3       \* calls of process_driver_query and process_telemetry together
MaxRawGear == 7       \* phys.gear ranges over 0..MaxRawGear when converted alone

\* Python's None, outside the range of the lap counters
None == 0 - 1

LapIds == 0..MaxLap

\* ------------------------------------------------------------ LapBuffer
\* The position the caller passes with the sample of clock t: distinct at
\* every tick
carCoordinates(t) == 10 * t

\* The dict add_sample stores: {"t": t, "x": x, "z": z, "speed": speed_kmh,
\* **extra}.  The callers pass their clock as t and their position as x; the
\* other entries are carried along untouched and are left out.
Sample(t) == [t |-> t, x |-> carCoordinates(t)]

\* One invocation of the callback: the arguments (lap_id, samples), where
\* samples is the list reference handed over; `got` is what that list held
\* at the call and `at` the number of the add_sample call that made it.
Emission(h, lap_id, ref, at) ==
    [lap_id |-> lap_id, samples |-> ref, got |-> h[ref], at |-> at]

\* add_sample, lap_id == current_lap_id: append to the list in place
AppendToLap(cur, s) ==
    /\ current_lap_id' = cur
    /\ heap' = [heap EXCEPT ![samples] = Append(@, s)]
    /\ UNCHANGED <<samples, on_lap_complete>>

\* add_sample, lap_id > current_lap_id: finish the previous lap (if it has
\* samples) and start collecting the new one in a new list
StartNewLap(cur, lap_id, s, t) ==
    /\ on_lap_complete' =
           IF heap[samples] # <<>>
           THEN Append(on_lap_complete, Emission(heap, cur, samples, t))
           ELSE on_lap_complete
    /\ current_lap_id' = lap_id
    /\ heap' = Append(heap, <<s>>)
    /\ samples' = Len(heap) + 1

\* add_sample, lap_id < current_lap_id: reset the buffer to a new list
ResetBuffer(lap_id, s) ==
    /\ current_lap_id' = lap_id
    /\ heap' = Append(heap, <<s>>)
    /\ samples' = Len(heap) + 1
    /\ UNCHANGED on_lap_complete

\* ---- faulty variants of add_sample, used to test the properties below
\* the arriving sample is appended before the finished lap is handed over
add_sample_AppendsFirst(lap_id, t) ==
    LET cur == IF current_lap_id = None THEN lap_id ELSE current_lap_id
        s == Sample(t)
        h == [heap EXCEPT ![samples] = Append(@, s)]
    IN  IF lap_id = cur THEN AppendToLap(cur, s)
        ELSE IF lap_id > cur
        THEN /\ on_lap_complete' =
                    Append(on_lap_complete, Emission(h, cur, samples, t))
             /\ current_lap_id' = lap_id
             /\ heap' = Append(h, <<s>>)
             /\ samples' = Len(h) + 1
        ELSE ResetBuffer(lap_id, s)
\* a regression flushes the buffer to the consumer instead of discarding it
add_sample_FlushesOnRegression(lap_id, t) ==
    LET cur == IF current_lap_id = None THEN lap_id ELSE current_lap_id
        s == Sample(t)
    IN  IF lap_id = cur THEN AppendToLap(cur, s)
        ELSE StartNewLap(cur, lap_id, s, t)
\* current_lap_id is not advanced at a lap boundary
add_sample_KeepsLapId(lap_id, t) ==
    LET cur == IF current_lap_id = None THEN lap_id ELSE current_lap_id
        s == Sample(t)
    IN  IF lap_id = cur THEN AppendToLap(cur, s)
        ELSE IF lap_id > cur
        THEN /\ on_lap_complete' =
                    Append(on_lap_complete, Emission(heap, cur, samples, t))
             /\ current_lap_id' = cur
             /\ heap' = Append(heap, <<s>>)
             /\ samples' = Len(heap) + 1
        ELSE ResetBuffer(lap_id, s)
\* a sample of the current lap is inserted at the front of the buffer
add_sample_Prepends(lap_id, t) ==
    LET cur == IF current_lap_id = None THEN lap_id ELSE current_lap_id
        s == Sample(t)
    IN  IF lap_id = cur
        THEN /\ current_lap_id' = cur
             /\ heap' = [heap EXCEPT ![samples] = <<s>> \o @]
             /\ UNCHANGED <<samples, on_lap_complete>>
        ELSE IF lap_id > cur THEN StartNewLap(cur, lap_id, s, t)
        ELSE ResetBuffer(lap_id, s)
\* the buffer list is cleared and reused (samples.clear()) at a boundary
add_sample_ReusesList(lap_id, t) ==
    LET cur == IF current_lap_id = None THEN lap_id ELSE current_lap_id
        s == Sample(t)
    IN  IF lap_id = cur THEN AppendToLap(cur, s)
        ELSE IF lap_id > cur
        THEN /\ on_lap_complete' =
                    Append(on_lap_complete, Emission(heap, cur, samples, t))
             /\ current_lap_id' = lap_id
             /\ heap' = [heap EXCEPT ![samples] = <<s>>]
             /\ samples' = samples
        ELSE ResetBuffer(lap_id, s)
\* a regression empties the buffer and drops the arriving sample as well
add_sample_EmptiesOnRegression(lap_id, t) ==
    LET cur == IF current_lap_id = None THEN lap_id ELSE current_lap_id
        s == Sample(t)
    IN  IF lap_id = cur THEN AppendToLap(cur, s)
        ELSE IF lap_id > cur THEN StartNewLap(cur, lap_id, s, t)
        ELSE /\ current_lap_id' = lap_id
             /\ heap' = Append(heap, <<>>)
             /\ samples' = Len(heap) + 1
             /\ UNCHANGED on_lap_complete

\* LapBuffer.add_sample(lap_id, t, ...)
add_sample(lap_id, t) ==
    LET cur == IF current_lap_id = None THEN lap_id ELSE current_lap_id
        s == Sample(t)
    IN  IF lap_id = cur THEN AppendToLap(cur, s)
        ELSE IF lap_id > cur THEN StartNewLap(cur, lap_id, s, t)
        ELSE ResetBuffer(lap_id, s)

\* A caller (an adapter's run loop) feeds the next sample; its clock is the
\* number of the call.
Feed ==
    /\ backend = "lap_buffer"
    /\ Len(fed) < MaxFeeds
    /\ \E lap_id \in LapIds :
          /\ add_sample(lap_id, Len(fed) + 1)
          /\ fed' = Append(fed, [lap_id |-> lap_id, t |-> Len(fed) + 1])
    /\ UNCHANGED <<backend, accVars, acVars, restVars>>

\* LapBuffer.__init__: current_lap_id = None, samples = [] (a fresh list)
InitLapBuffer ==
    /\ heap = << <<>> >>
    /\ current_lap_id = None
    /\ samples = 1
    /\ fed = <<>>
    /\ on_lap_complete = <<>>

\* ------------------------------------------------- wire format (struct)
\* Bytes are 0..255 and a packet is a sequence of bytes; offsets count
\* from 0 as in Python.
Fits(data, offset, n) == offset + n <= Len(data)
U8(data, offset) == data[offset + 1]
U16LE(data, offset) == data[offset + 1] + 256 * data[offset + 2]
U32LE(data, offset) ==
    data[offset + 1] + 256 * data[offset + 2]
      + 65536 * data[offset + 3] + 16777216 * data[offset + 4]
LE16(n) == <<n % 256, (n \div 256) % 256>>
LE32(n) == <<n % 256, (n \div 256) % 256, (n \div 65536) % 256,
             (n \div 16777216) % 256>>
Slice(data, from, to) == [i \in 1..(to - from) |-> data[from + i]]
Zeros(n) == [i \in 1..n |-> 0]

\* bytes.decode('utf-8', errors='ignore') on the bytes the model uses: ASCII
\* bytes decode to themselves, the byte 0xFF is valid nowhere in UTF-8 and
\* is dropped.  A decoded string is the sequence of its code points.
IsAscii(b) == b < 128
decode_utf8_ignore(bytes) == SelectSeq(bytes, IsAscii)

\* InboundMessageType / OutboundMessageType
REGISTRATION_RESULT == 1
REALTIME_UPDATE == 2
REALTIME_CAR_UPDATE == 3
ENTRY_LIST == 4
BROADCASTING_EVENT == 5
ENTRY_LIST_CAR == 6
TRACK_DATA == 7
REGISTER_COMMAND_APPLICATION == 1
UNREGISTER_COMMAND_APPLICATION == 9
REQUEST_ENTRY_LIST == 10
REQUEST_TRACK_DATA == 11

\* ---- faulty variant, used to test the properties below: a length that
\* does not fit leaves the offset where it was
read_string_KeepsOffset(data, offset) ==
    IF offset + 2 > Len(data) THEN << <<>>, offset >>
    ELSE LET length == U16LE(data, offset)
             off == offset + 2
         IN  IF off + length > Len(data) THEN << <<>>, offset >>
             ELSE << decode_utf8_ignore(Slice(data, off, off + length)),
                     off + length >>

\* The offsets of `data` read_string reads: the two bytes of the length by
\* unpack_from, then the bytes of the slice
read_string_reads(data, offset) ==
    IF offset + 2 > Len(data) THEN {}
    ELSE LET length == U16LE(data, offset)
         IN  {offset, offset + 1}
               \cup (IF offset + 2 + length > Len(data) THEN {}
                     ELSE (offset + 2)..(offset + 2 + length - 1))

\* AccPacketParser.read_string: <<string, new offset>>
read_string(data, offset) ==
    IF offset + 2 > Len(data) THEN << <<>>, offset >>
    ELSE LET length == U16LE(data, offset)
             off == offset + 2
         IN  IF off + length > Len(data) THEN << <<>>, off >>
             ELSE << decode_utf8_ignore(Slice(data, off, off + length)),
                     off + length >>

StrPacketTooShort ==
    <<80, 97, 99, 107, 101, 116, 32, 116, 111, 111, 32, 115, 104, 111, 114, 116>>

\* What a parser gives back: the dict it returns, or the struct.error it
\* raises when unpack_from is asked for bytes beyond the buffer.
Raised == [raised |-> TRUE]
Returned(d) == [raised |-> FALSE, value |-> d]

\* dict.get(key, default); the empty dict {} is the function with no keys
Get(d, key, default) == IF key \in DOMAIN d THEN d[key] ELSE default
EmptyDict == <<>>

\* AccPacketParser.parse_registration_result
parse_registration_result(data) ==
    IF Len(data) < 5
    THEN Returned([success |-> FALSE, error |-> StrPacketTooShort])
    ELSE IF ~Fits(data, 1, 4) \/ ~Fits(data, 5, 1) THEN Raised
    ELSE Returned(
           [success |-> U8(data, 5) = 1,
            connection_id |-> U32LE(data, 1),
            readonly |-> IF Len(data) > 6 THEN U8(data, 6) = 1 ELSE FALSE,
            error |-> IF Len(data) > 7 THEN read_string(data, 7)[1] ELSE <<>>])

\* AccPacketParser.parse_realtime_car_update (the fields the worker reads)
parse_realtime_car_update(data) ==
    IF Len(data) < 100 THEN Returned(EmptyDict)
    ELSE Returned(
           [car_index |-> U16LE(data, 1),
            gear |-> U8(data, 6) - 1,
            world_pos_x |-> U32LE(data, 7),
            world_pos_z |-> U32LE(data, 15),
            position |-> U16LE(data, 23),
            laps |-> U16LE(data, 33),
            best_session_lap_ms |-> U32LE(data, 39),
            last_lap_ms |-> U32LE(data, 43),
            kmh |-> U16LE(data, 52)])

\* AccPacketParser.parse_track_data: read_string moves the offset, each
\* later field is read only if it fits and moves the offset by its size
parse_track_data(data) ==
    IF Len(data) < 10 THEN Returned(EmptyDict)
    ELSE LET name == read_string(data, 5)
             off1 == name[2]
             off2 == off1 + 4
         IN  Returned(
               [track_name |-> name[1],
                track_id |-> IF Fits(data, off1, 4) THEN U32LE(data, off1) ELSE 0,
                track_meters |-> IF Fits(data, off2, 4) THEN U32LE(data, off2)
                                 ELSE 0])

\* The driver loop of parse_entry_list_car: <<drivers, offset>> after at
\* most n more drivers; the category and the nationality are read only if
\* they fit and are not kept
RECURSIVE read_drivers(_, _, _, _)
read_drivers(data, offset, n, drivers) ==
    IF n = 0 \/ offset >= Len(data) THEN <<drivers, offset>>
    ELSE LET first_name == read_string(data, offset)
             last_name == read_string(data, first_name[2])
             short_name == read_string(data, last_name[2])
         IN  read_drivers(data, short_name[2] + 3, n - 1,
                          Append(drivers,
                                 [first_name |-> first_name[1],
                                  last_name |-> last_name[1],
                                  short_name |-> short_name[1]]))

\* AccPacketParser.parse_entry_list_car: the race number, the cup category
\* and the driver index are unpacked without a length test
parse_entry_list_car(data) ==
    IF Len(data) < 10 THEN Returned(EmptyDict)
    ELSE LET team_name == read_string(data, 4)
             off == team_name[2]
         IN  IF ~Fits(data, off, 4) \/ ~Fits(data, off + 4, 1)
                  \/ ~Fits(data, off + 5, 1)
             THEN Raised
             ELSE LET driver_count == IF off + 6 < Len(data)
                                      THEN U8(data, off + 6) ELSE 0
                  IN  Returned(
                        [car_id |-> U16LE(data, 1),
                         car_model_type |-> U8(data, 3),
                         team_name |-> team_name[1],
                         race_number |-> U32LE(data, off),
                         drivers |-> read_drivers(data, off + 7, driver_count,
                                                  <<>>)[1]])

\* ------------------------------------------ the packets the server sends
\* A registration result as the broadcasting server lays it out: type,
\* connection id, success, read-only, error message.
RegistrationResultPacket(cid, success, readonly, err) ==
    <<REGISTRATION_RESULT>> \o LE32(cid)
      \o <<IF success THEN 1 ELSE 0, IF readonly THEN 1 ELSE 0>>
      \o LE16(Len(err)) \o err

\* A realtime car update, 100 bytes: the fields the parser reads at their
\* offsets, every other byte 0.
RealtimeCarUpdatePacket(car, rawGear, laps, kmh) ==
    <<REALTIME_CAR_UPDATE>> \o LE16(car) \o Zeros(3) \o <<rawGear>>
      \o Zeros(26) \o LE16(laps) \o Zeros(17) \o LE16(kmh) \o Zeros(46)

StrWrongPassword ==
    <<119, 114, 111, 110, 103, 32, 112, 97, 115, 115, 119, 111, 114, 100>>
StrNoWithBadByte == <<110, 255, 111>>
\* The error texts the server sends in the model
ErrorTexts == {StrWrongPassword}

StrSpa == <<83, 112, 97>>
StrTeam == <<84, 101, 97, 109>>
StrAB == <<65, 66>>

\* Track data: type, connection id, name, track id, length in metres, the
\* number of camera sets (none)
TrackDataPacket(cid, name, meters) ==
    <<TRACK_DATA>> \o LE32(cid) \o LE16(Len(name)) \o name
      \o LE32(1) \o LE32(meters) \o <<0>>

\* One driver of an entry: three names, category, nationality
DriverBytes(name) ==
    LE16(Len(name)) \o name \o LE16(Len(name)) \o name
      \o LE16(Len(name)) \o name \o <<0>> \o LE16(0)

\* An entry of the entry list: type, car id, model, team, race number, cup
\* category, current driver, the drivers
EntryListCarPacket(car, team, number, drivers) ==
    <<ENTRY_LIST_CAR>> \o LE16(car) \o <<30>> \o LE16(Len(team)) \o team
      \o LE32(number) \o <<0, 0, Len(drivers)>>
      \o (IF drivers = <<>> THEN <<>> ELSE DriverBytes(drivers[1]))

ConnIds == {0, 7}
Cars == {0, 1}

RegistrationSuccessPackets ==
    {RegistrationResultPacket(cid, TRUE, FALSE, <<>>) : cid \in ConnIds}
RegistrationFailurePackets ==
    {RegistrationResultPacket(0, FALSE, FALSE, StrWrongPassword),
     RegistrationResultPacket(7, FALSE, FALSE, StrNoWithBadByte)}
RegistrationResultPackets ==
    RegistrationSuccessPackets \cup RegistrationFailurePackets
      \cup {<<REGISTRATION_RESULT, 7, 0, 0, 0>>}
CarUpdatePackets ==
    {RealtimeCarUpdatePacket(car, 3, laps, 120) :
        car \in Cars, laps \in 0..MaxUdpLap}
      \cup {<<REALTIME_CAR_UPDATE, 1, 0>>}
\* A track and a packet cut short
TrackDataPackets ==
    {TrackDataPacket(7, StrSpa, 7004), <<TRACK_DATA, 7, 0>>}
\* An entry with a driver, and a packet of ten bytes whose team name claims
\* more bytes than there are
EntryListCarPackets ==
    {EntryListCarPacket(1, StrTeam, 46, <<StrAB>>),
     <<ENTRY_LIST_CAR, 1, 0, 30, 9, 0, 84, 101, 97, 109>>}
\* A packet of a type the loop has no branch for, one of a type the
\* protocol does not have, and the empty datagram
UnhandledPackets == {<<BROADCASTING_EVENT, 1>>, <<99>>, <<>>}

\* --------------------------------------------------- AccTelemetryWorker
StrDisplayName ==
    <<80, 121, 116, 104, 111, 110, 84, 101, 108, 101, 109, 101, 116, 114, 121>>
StrPassword == <<>>

\* _send_registration: the packet it builds
RegistrationPacket ==
    <<REGISTER_COMMAND_APPLICATION, 4>>
      \o LE16(Len(StrDisplayName)) \o StrDisplayName
      \o LE16(Len(StrPassword)) \o StrPassword
      \o LE32(100) \o LE16(0)
\* _send_unregistration, _send_request_track_data, _send_request_entry_list
UnregistrationPacket(cid) == <<UNREGISTER_COMMAND_APPLICATION>> \o LE32(cid)
RequestTrackDataPacket(cid) == <<REQUEST_TRACK_DATA>> \o LE32(cid)
RequestEntryListPacket(cid) == <<REQUEST_ENTRY_LIST>> \o LE32(cid)

\* A status_update emission: the fixed text and the text formatted into it
Status(msg, arg) == [msg |-> msg, arg |-> arg]

\* Python truth of self.connection_id
Truthy(cid) == cid # None /\ cid # 0

\* The finally block of run(): unregister if a connection id is held, close
\* the socket, report.  `out` and `st` are the packets and statuses so far.
\* sock.sendto inside _send_unregistration can raise OSError; nothing in the
\* block catches it, so the statements after it are skipped and the
\* exception leaves run().
Finally(out, st) ==
    \/ /\ sent' = IF Truthy(connection_id)
                  THEN Append(out, UnregistrationPacket(connection_id))
                  ELSE out
       /\ sock' = "closed"
       /\ status_update' = Append(st, Status("Disconnected", <<>>))
       /\ pc' = "done"
    \/ /\ Truthy(connection_id)
       /\ sent' = out
       /\ sock' = sock
       /\ status_update' = st
       /\ pc' = "raised"

\* The outcomes of sock.recvfrom(2048)
Datagram(data) == [kind |-> "datagram", data |-> data]
Timeout == [kind |-> "timeout", data |-> <<>>]
\* The wall clock, counted in receive attempts
now == Len(received)

\* except Exception as e: status "Error: ...", then the finally block
RaiseOutOfLoop(data) ==
    /\ Finally(sent, Append(status_update, Status("Error: ", <<>>)))
    /\ received' = Append(received, Datagram(data))
    /\ UNCHANGED <<backend, heap, lbVars, running, stop_called, registered,
                   connection_id, current_lap_samples, last_lap_count, arrivals,
                   lap_completed, realtime_sample, live_data_update, acVars, restVars>>

\* How socket.socket(...) followed by sock.bind(('', port)) can go
SocketOutcomes == {"bound", "socket_failed", "bind_failed"}

\* run() up to the loop: status, socket, registration, running = True.
\* The socket is created and bound outside every try: an OSError of
\* socket.socket or of sock.bind leaves run() at once.
Start ==
    /\ backend = "acc"
    /\ pc = "idle"
    /\ status_update' = Append(status_update, Status("Connecting to ACC...", <<>>))
    /\ \E outcome \in SocketOutcomes :
          IF outcome = "bound"
          THEN /\ sock' = "open"
               /\ sock_threads' = sock_threads \cup {"run"}
               /\ sent' = Append(sent, RegistrationPacket)
               /\ running' = TRUE
               /\ pc' = "loop"
          ELSE /\ sock' = IF outcome = "bind_failed" THEN "open" ELSE "none"
               /\ sock_threads' = IF outcome = "bind_failed"
                                  THEN sock_threads \cup {"run"}
                                  ELSE sock_threads
               /\ pc' = "raised"
               /\ UNCHANGED <<sent, running>>
    /\ UNCHANGED <<backend, heap, lbVars, stop_called, registered, connection_id,
                   current_lap_samples, last_lap_count, received, arrivals,
                   lap_completed, realtime_sample, live_data_update, acVars,
                   accMeta, torcsVars, fnVars,
                   appVars>>

Receiving ==
    /\ backend = "acc"
    /\ pc = "loop"
    /\ running
    /\ now < MaxPackets

\* ---- faulty variant of the REGISTRATION_RESULT branch, used to test the
\* properties below: the connection id is stored before success is looked at
HandleRegistrationResult_StoresIdFirst(data) ==
    LET r == parse_registration_result(data)
    IN  IF r.raised THEN RaiseOutOfLoop(data)
        ELSE /\ connection_id' = Get(r.value, "connection_id", connection_id)
             /\ IF r.value.success
                THEN /\ registered' = TRUE
                     /\ status_update' =
                          Append(status_update, Status("Connected to ACC!", <<>>))
                     /\ sent' = sent
                          \o <<RequestTrackDataPacket(r.value.connection_id),
                               RequestEntryListPacket(r.value.connection_id)>>
                ELSE /\ status_update' =
                          Append(status_update,
                                 Status("Connection failed: ",
                                        Get(r.value, "error", <<>>)))
                     /\ UNCHANGED <<registered, sent>>
             /\ received' = Append(received, Datagram(data))
             /\ UNCHANGED <<backend, heap, lbVars, pc, running, stop_called, sock,
                            current_lap_samples, last_lap_count, arrivals,
                            lap_completed, realtime_sample, live_data_update,
                            acVars, restVars>>

\* ---- faulty variant: the two requests carry the id held before the result
HandleRegistrationResult_StaleId(data) ==
    LET r == parse_registration_result(data)
        held == IF connection_id = None THEN 0 ELSE connection_id
    IN  IF r.raised THEN RaiseOutOfLoop(data)
        ELSE /\ IF r.value.success
                THEN /\ connection_id' = r.value.connection_id
                     /\ registered' = TRUE
                     /\ status_update' =
                          Append(status_update, Status("Connected to ACC!", <<>>))
                     /\ sent' = sent
                          \o <<RequestTrackDataPacket(held),
                               RequestEntryListPacket(held)>>
                ELSE /\ status_update' =
                          Append(status_update,
                                 Status("Connection failed: ",
                                        Get(r.value, "error", <<>>)))
                     /\ UNCHANGED <<connection_id, registered, sent>>
             /\ received' = Append(received, Datagram(data))
             /\ UNCHANGED <<backend, heap, lbVars, pc, running, stop_called, sock,
                            current_lap_samples, last_lap_count, arrivals,
                            lap_completed, realtime_sample, live_data_update,
                            acVars, restVars>>

\* ---- faulty variant: the entry list is requested before the track data
HandleRegistrationResult_EntryListFirst(data) ==
    LET r == parse_registration_result(data)
    IN  IF r.raised THEN RaiseOutOfLoop(data)
        ELSE /\ IF r.value.success
                THEN /\ connection_id' = r.value.connection_id
                     /\ registered' = TRUE
                     /\ status_update' =
                          Append(status_update, Status("Connected to ACC!", <<>>))
                     /\ sent' = sent
                          \o <<RequestEntryListPacket(r.value.connection_id),
                               RequestTrackDataPacket(r.value.connection_id)>>
                ELSE /\ status_update' =
                          Append(status_update,
                                 Status("Connection failed: ",
                                        Get(r.value, "error", <<>>)))
                     /\ UNCHANGED <<connection_id, registered, sent>>
             /\ received' = Append(received, Datagram(data))
             /\ UNCHANGED <<backend, heap, lbVars, pc, running, stop_called, sock,
                            current_lap_samples, last_lap_count, arrivals,
                            lap_completed, realtime_sample, live_data_update,
                            acVars, restVars>>

\* The REGISTRATION_RESULT branch of the loop
HandleRegistrationResult(data) ==
    LET r == parse_registration_result(data)
    IN  IF r.raised THEN RaiseOutOfLoop(data)
        ELSE /\ IF r.value.success
                THEN /\ connection_id' = r.value.connection_id
                     /\ registered' = TRUE
                     /\ status_update' =
                          Append(status_update, Status("Connected to ACC!", <<>>))
                     /\ sent' = sent
                          \o <<RequestTrackDataPacket(r.value.connection_id),
                               RequestEntryListPacket(r.value.connection_id)>>
                ELSE /\ status_update' =
                          Append(status_update,
                                 Status("Connection failed: ",
                                        Get(r.value, "error", <<>>)))
                     /\ UNCHANGED <<connection_id, registered, sent>>
             /\ received' = Append(received, Datagram(data))
             /\ UNCHANGED <<backend, heap, lbVars, pc, running, stop_called, sock,
                            current_lap_samples, last_lap_count, arrivals,
                            lap_completed, realtime_sample, live_data_update,
                            acVars, restVars>>

RecvRegistrationResult ==
    /\ Receiving
    /\ \E data \in RegistrationResultPackets :
          /\ U8(data, 0) = REGISTRATION_RESULT
          /\ HandleRegistrationResult(data)

\* The sample dict _handle_car_update builds
CarSample(t, car_update) ==
    [t |-> t,
     lap_id |-> Get(car_update, "laps", 0),
     x |-> Get(car_update, "world_pos_x", 0),
     z |-> Get(car_update, "world_pos_z", 0),
     speed |-> Get(car_update, "kmh", 0),
     gear |-> Get(car_update, "gear", 0),
     rpms |-> 0, brake |-> 0, throttle |-> 0]

\* A function with one more (or one changed) entry
Put(f, k, v) == [x \in DOMAIN f \cup {k} |-> IF x = k THEN v ELSE f[x]]

\* ---- faulty variant of _handle_car_update, used to test the properties
\* below: one buffer and one lap counter shared by all cars
handle_car_update_OneBuffer(car_update, t) ==
    LET car_index == 0
        laps == Get(car_update, "laps", 0)
        first == car_index \notin DOMAIN current_lap_samples
        heap1 == IF first THEN Append(heap, <<>>) ELSE heap
        ref == IF first THEN Len(heap) + 1 ELSE current_lap_samples[car_index]
        last == IF first THEN laps ELSE last_lap_count[car_index]
        sample == CarSample(t, car_update)
        heap2 == [heap1 EXCEPT ![ref] = Append(@, sample)]
    IN  /\ realtime_sample' = Append(realtime_sample, sample)
        /\ arrivals' = Append(arrivals,
                              [t |-> t,
                               car_index |-> Get(car_update, "car_index", 0),
                               laps |-> laps])
        /\ IF laps > last
           THEN /\ lap_completed' =
                     Append(lap_completed, Emission(heap2, laps, ref, t))
                /\ heap' = Append(heap2, <<sample>>)
                /\ current_lap_samples' =
                     Put(current_lap_samples, car_index, Len(heap2) + 1)
                /\ last_lap_count' = Put(last_lap_count, car_index, laps)
           ELSE /\ heap' = heap2
                /\ current_lap_samples' = Put(current_lap_samples, car_index, ref)
                /\ last_lap_count' = Put(last_lap_count, car_index, last)
                /\ UNCHANGED lap_completed

\* AccTelemetryWorker._handle_car_update, at clock t
handle_car_update(car_update, t) ==
    LET car_index == Get(car_update, "car_index", 0)
        laps == Get(car_update, "laps", 0)
        first == car_index \notin DOMAIN current_lap_samples
        heap1 == IF first THEN Append(heap, <<>>) ELSE heap
        ref == IF first THEN Len(heap) + 1 ELSE current_lap_samples[car_index]
        last == IF first THEN laps ELSE last_lap_count[car_index]
        sample == CarSample(t, car_update)
        heap2 == [heap1 EXCEPT ![ref] = Append(@, sample)]
    IN  /\ realtime_sample' = Append(realtime_sample, sample)
        /\ arrivals' = Append(arrivals,
                              [t |-> t, car_index |-> car_index, laps |-> laps])
        /\ IF laps > last
           THEN /\ lap_completed' =
                     IF heap2[ref] # <<>>
                     THEN Append(lap_completed, Emission(heap2, laps, ref, t))
                     ELSE lap_completed
                /\ heap' = Append(heap2, <<sample>>)
                /\ current_lap_samples' =
                     Put(current_lap_samples, car_index, Len(heap2) + 1)
                /\ last_lap_count' = Put(last_lap_count, car_index, laps)
           ELSE /\ heap' = heap2
                /\ current_lap_samples' = Put(current_lap_samples, car_index, ref)
                /\ last_lap_count' = Put(last_lap_count, car_index, last)
                /\ UNCHANGED lap_completed

\* _format_lap_time: "" for 0 and for values above the largest int32, else
\* the minutes and the seconds (the millisecond digits, which the code
\* computes in floating point, are left out)
format_lap_time(ms) ==
    IF ms = 0 \/ ms > 2147483647 THEN <<>>
    ELSE <<(ms \div 1000) \div 60, (ms \div 1000) % 60>>

\* _emit_live_data: the dict it emits
LiveData(car_update) ==
    [current_lap |-> Get(car_update, "laps", 0) + 1,
     speed |-> Get(car_update, "kmh", 0),
     gear |-> Get(car_update, "gear", 0),
     position |-> Get(car_update, "position", 0),
     last_time |-> format_lap_time(Get(car_update, "last_lap_ms", 0)),
     best_time |-> format_lap_time(Get(car_update, "best_session_lap_ms", 0))]

\* The REALTIME_CAR_UPDATE branch of the loop; `due` says whether more than
\* 0.1 s of wall time have passed since the last live-data emission.
RecvRealtimeCarUpdate ==
    /\ Receiving
    /\ \E data \in CarUpdatePackets, due \in BOOLEAN :
          /\ U8(data, 0) = REALTIME_CAR_UPDATE
          /\ LET r == parse_realtime_car_update(data)
             IN  /\ handle_car_update(r.value, now + 1)
                 /\ live_data_update' =
                      IF due THEN live_data_update \cup {LiveData(r.value)}
                      ELSE live_data_update
          /\ received' = Append(received, Datagram(data))
    /\ UNCHANGED <<backend, lbVars, pc, running, stop_called, sock, registered,
                   connection_id, sent, status_update, acVars, restVars>>

StrUnknown == <<85, 110, 107, 110, 111, 119, 110>>

\* session_data of the TRACK_DATA branch
acc_session_data(track_data) ==
    [track |-> Get(track_data, "track_name", StrUnknown),
     track_config |-> "", car_model |-> "Unknown", player_name |-> "ACC",
     player_surname |-> "Driver", player_nick |-> "",
     max_rpm |-> 9000, max_fuel |-> 100]

\* The TRACK_DATA branch of the loop
RecvTrackData ==
    /\ Receiving
    /\ \E data \in TrackDataPackets :
          /\ U8(data, 0) = TRACK_DATA
          /\ LET track_data == parse_track_data(data).value
             IN  /\ track_info' = track_data
                 /\ session_info_update' =
                      Append(session_info_update, acc_session_data(track_data))
          /\ received' = Append(received, Datagram(data))
    /\ UNCHANGED <<backend, heap, lbVars, pc, running, stop_called, sock,
                   registered, connection_id, sent,
                   current_lap_samples, last_lap_count, arrivals,
                   status_update, lap_completed, realtime_sample,
                   live_data_update, mm, car_data, sock_threads, torcsVars,
                   fnVars,
                   appVars>>

\* The ENTRY_LIST_CAR branch of the loop: the dict is stored under its
\* car_id, the empty dict of a short packet under None
RecvEntryListCar ==
    /\ Receiving
    /\ \E data \in EntryListCarPackets :
          /\ U8(data, 0) = ENTRY_LIST_CAR
          /\ LET r == parse_entry_list_car(data)
             IN  IF r.raised THEN RaiseOutOfLoop(data)
                 ELSE /\ car_data' =
                           Put(car_data, Get(r.value, "car_id", None), r.value)
                      /\ received' = Append(received, Datagram(data))
                      /\ UNCHANGED <<backend, heap, lbVars, pc, running,
                                     stop_called, sock, registered,
                                     connection_id, sent, current_lap_samples,
                                     last_lap_count, arrivals, status_update,
                                     lap_completed, realtime_sample,
                                     live_data_update, acVars, track_info,
                                     sock_threads, torcsVars, fnVars,
                                     appVars>>

\* The branches of the loop, by the first byte of the datagram
HandledTypes == {REGISTRATION_RESULT, TRACK_DATA, ENTRY_LIST_CAR,
                 REALTIME_CAR_UPDATE}

\* ---- faulty variant, used to test the properties below: a final else
\* branch that answers what it does not know with a new registration
RecvUnhandled_Reregisters ==
    /\ Receiving
    /\ \E data \in UnhandledPackets :
          /\ IF Len(data) < 1 THEN TRUE ELSE U8(data, 0) \notin HandledTypes
          /\ received' = Append(received, Datagram(data))
    /\ sent' = Append(sent, RegistrationPacket)
    /\ UNCHANGED <<backend, heap, lbVars, pc, running, stop_called, sock,
                   registered, connection_id,
                   current_lap_samples, last_lap_count, arrivals,
                   status_update, lap_completed, realtime_sample,
                   live_data_update, acVars, restVars>>

\* A datagram no branch of the if/elif chain takes (or an empty one, which
\* the loop skips): the loop goes on to the next recvfrom
RecvUnhandled ==
    /\ Receiving
    /\ \E data \in UnhandledPackets :
          /\ IF Len(data) < 1 THEN TRUE ELSE U8(data, 0) \notin HandledTypes
          /\ received' = Append(received, Datagram(data))
    /\ UNCHANGED <<backend, heap, lbVars, pc, running, stop_called, sock,
                   registered, connection_id, sent,
                   current_lap_samples, last_lap_count, arrivals,
                   status_update, lap_completed, realtime_sample,
                   live_data_update, acVars, restVars>>

\* ---- faulty variant, used to test the properties below: the registration
\* is repeated at every timeout, registered or not
RecvTimeout_AlwaysRetries ==
    /\ Receiving
    /\ sent' = Append(sent, RegistrationPacket)
    /\ received' = Append(received, Timeout)
    /\ UNCHANGED <<backend, heap, lbVars, pc, running, stop_called, sock,
                   registered, connection_id,
                   current_lap_samples, last_lap_count, arrivals,
                   status_update, lap_completed, realtime_sample,
                   live_data_update, acVars, restVars>>

\* except socket.timeout: retry the registration while not registered
RecvTimeout ==
    /\ Receiving
    /\ sent' = IF ~registered /\ running
               THEN Append(sent, RegistrationPacket)
               ELSE sent
    /\ received' = Append(received, Timeout)
    /\ UNCHANGED <<backend, heap, lbVars, pc, running, stop_called, sock,
                   registered, connection_id,
                   current_lap_samples, last_lap_count, arrivals,
                   status_update, lap_completed, realtime_sample,
                   live_data_update, acVars, restVars>>

\* stop() of either worker, called once from the GUI thread (main.py, after
\* the event loop returns) at any moment after the thread was started
stop ==
    /\ backend \in {"acc", "ac", "torcs"}
    /\ pc \in {"idle", "loop"}
    /\ ~stop_called
    /\ running' = FALSE
    /\ stop_called' = TRUE
    /\ UNCHANGED <<backend, heap, lbVars, pc, sock, registered, connection_id,
                   current_lap_samples, last_lap_count, received, arrivals, accOut,
                   acVars, restVars>>

\* `while self.running` finds the flag cleared: the finally block runs
LoopExit ==
    /\ backend = "acc"
    /\ pc = "loop"
    /\ ~running
    /\ Finally(sent, status_update)
    /\ UNCHANGED <<backend, heap, lbVars, running, stop_called, registered,
                   connection_id, current_lap_samples, last_lap_count, received,
                   arrivals, lap_completed, realtime_sample, live_data_update,
                   acVars, restVars>>

\* AccTelemetryWorker.__init__
InitAcc ==
    /\ pc = "idle"
    /\ running = FALSE
    /\ stop_called = FALSE
    /\ sock = "none"
    /\ registered = FALSE
    /\ connection_id = None
    /\ current_lap_samples = <<>>
    /\ last_lap_count = <<>>
    /\ received = <<>>
    /\ arrivals = <<>>
    /\ sent = <<>>
    /\ status_update = <<>>
    /\ lap_completed = <<>>
    /\ realtime_sample = <<>>
    /\ live_data_update = {}

\* ------------------------------------------------------ AcTelemetryWorker
\* The three named regions Assetto Corsa publishes
Regions == {"physics", "graphics", "static"}

\* phys.gear as the game writes it: 0 reverse, 1 neutral, 2 first gear
RawGears == {0, 1, 2}

\* live data goes out on every tenth frame
LiveDataEvery == 10

\* ---- faulty variant, used to test the properties below: the raw gear is
\* passed on as it is
display_gear_Raw(raw_gear) == raw_gear

\* The gear conversion of the loop
display_gear(raw_gear) ==
    IF raw_gear = 0 THEN 0 - 1
    ELSE IF raw_gear = 1 THEN 0
    ELSE raw_gear - 1

\* sample_data, the dict emitted on realtime_sample
AcSample(t, lap_id, raw_gear) ==
    [lap_id |-> lap_id, t |-> t, x |-> carCoordinates(t),
     gear |-> display_gear(raw_gear)]

\* live_data, the dict emitted on live_data_update
AcLiveData(lap_id, raw_gear) == [current_lap |-> lap_id + 1, gear |-> raw_gear]

\* session_data, built from the static page (its values stand for the
\* strings and numbers read from the region)
session_data ==
    [track |-> "track", track_config |-> "trackConfiguration",
     car_model |-> "carModel", player_name |-> "playerName",
     player_surname |-> "playerSurname", player_nick |-> "playerNick",
     max_rpm |-> "maxRpm", max_fuel |-> "maxFuel"]

\* ---- faulty variant of the start of run(), used to test the properties
\* below: only the physics region is required
StartAc_PhysicsOnly ==
    /\ backend = "ac"
    /\ pc = "idle"
    /\ \E opened \in SUBSET Regions :
          /\ mm' = [r \in Regions |-> IF r \in opened THEN "open" ELSE "none"]
          /\ IF "physics" \notin opened
             THEN /\ status_update' = status_update
                       \o <<Status("Connecting to Assetto Corsa...", <<>>),
                            Status("ERROR: Could not connect to AC shared memory.",
                                   <<>>)>>
                  /\ pc' = "done"
                  /\ UNCHANGED <<running, session_info_update>>
             ELSE /\ status_update' = status_update
                       \o <<Status("Connecting to Assetto Corsa...", <<>>),
                            Status("Connected! Start driving...", <<>>)>>
                  /\ session_info_update' =
                       IF "static" \in opened
                       THEN Append(session_info_update, session_data)
                       ELSE session_info_update
                  /\ running' = TRUE
                  /\ pc' = "loop"
    /\ UNCHANGED <<backend, heap, lbVars, stop_called, sock, registered,
                   connection_id, current_lap_samples, last_lap_count, received,
                   arrivals, sent, lap_completed, realtime_sample,
                   live_data_update, restVars>>

\* run() up to the loop: the three regions are opened (open_shared_memory
\* gives None for a region that cannot be opened); without physics or
\* graphics run() reports and returns; the static page is read once if it
\* is there; the LapBuffer is created; running = True.
StartAc ==
    /\ backend = "ac"
    /\ pc = "idle"
    /\ \E opened \in SUBSET Regions :
          /\ mm' = [r \in Regions |-> IF r \in opened THEN "open" ELSE "none"]
          /\ IF "physics" \notin opened \/ "graphics" \notin opened
             THEN /\ status_update' = status_update
                       \o <<Status("Connecting to Assetto Corsa...", <<>>),
                            Status("ERROR: Could not connect to AC shared memory.",
                                   <<>>)>>
                  /\ pc' = "done"
                  /\ UNCHANGED <<running, session_info_update>>
             ELSE /\ status_update' = status_update
                       \o <<Status("Connecting to Assetto Corsa...", <<>>),
                            Status("Connected! Start driving...", <<>>)>>
                  /\ session_info_update' =
                       IF "static" \in opened
                       THEN Append(session_info_update, session_data)
                       ELSE session_info_update
                  /\ running' = TRUE
                  /\ pc' = "loop"
    /\ UNCHANGED <<backend, heap, lbVars, stop_called, sock, registered,
                   connection_id, current_lap_samples, last_lap_count, received,
                   arrivals, sent, lap_completed, realtime_sample,
                   live_data_update, restVars>>

\* One iteration of the polling loop: both pages are read, the sample goes
\* into the LapBuffer (whose callback emits lap_completed) and out on
\* realtime_sample; the clock is the number of the frame.
Tick(lap_id, raw_gear) ==
    LET frame_count == Len(fed) + 1
    IN  /\ add_sample(lap_id, frame_count)
        /\ fed' = Append(fed, [lap_id |-> lap_id, t |-> frame_count])
        /\ lap_completed' = on_lap_complete'
        /\ realtime_sample' =
             Append(realtime_sample, AcSample(frame_count, lap_id, raw_gear))
        /\ live_data_update' =
             IF frame_count % LiveDataEvery = 0
             THEN live_data_update \cup {AcLiveData(lap_id, raw_gear)}
             ELSE live_data_update

\* The loop reading whatever the game has written
TickAc ==
    /\ backend = "ac"
    /\ pc = "loop"
    /\ running
    /\ Len(fed) < MaxTicks
    /\ \E lap_id \in LapIds, raw_gear \in RawGears : Tick(lap_id, raw_gear)
    /\ UNCHANGED <<backend, pc, running, stop_called, sock, registered,
                   connection_id, current_lap_samples, last_lap_count, received,
                   arrivals, sent, status_update, acVars, restVars>>

\* The loop reading a synthetic buffer in which successive ticks find these
\* values of completedLaps
SyntheticLaps == <<0, 0, 0, 1, 1, 2>>
TickSynthetic ==
    /\ backend = "ac"
    /\ pc = "loop"
    /\ running
    /\ Len(fed) < Len(SyntheticLaps)
    /\ \E raw_gear \in RawGears : Tick(SyntheticLaps[Len(fed) + 1], raw_gear)
    /\ UNCHANGED <<backend, pc, running, stop_called, sock, registered,
                   connection_id, current_lap_samples, last_lap_count, received,
                   arrivals, sent, status_update, acVars, restVars>>

\* `while self.running` finds the flag cleared: the finally block closes the
\* regions that were opened and reports
LoopExitAc ==
    /\ backend = "ac"
    /\ pc = "loop"
    /\ ~running
    /\ mm' = [r \in Regions |-> IF mm[r] = "open" THEN "closed" ELSE mm[r]]
    /\ status_update' =
         Append(status_update, Status("Disconnected from Assetto Corsa.", <<>>))
    /\ pc' = "done"
    /\ UNCHANGED <<backend, heap, lbVars, running, stop_called, sock, registered,
                   connection_id, current_lap_samples, last_lap_count, received,
                   arrivals, sent, lap_completed, realtime_sample,
                   live_data_update, session_info_update, restVars>>

\* Before run(): nothing opened, nothing emitted
InitAc ==
    /\ mm = [r \in Regions |-> "none"]
    /\ session_info_update = <<>>

\* The remaining fields of AccTelemetryWorker.__init__, and no thread has
\* touched a socket
InitAccMeta ==
    /\ track_info = <<>>
    /\ car_data = <<>>
    /\ sock_threads = {}

\* TorcsTelemetryWorker.__init__
InitTorcs ==
    /\ torcs_current_lap_id = 0
    /\ last_dist_raced = 0
    /\ client = "none"

\* The values of distRaced the sensor reports: a cumulative distance, with
\* values 100 and 101 apart
Dists == {0, 100, 101, 201}

\* sample, as _build_sample makes it (lap_id and t; the other fields do not
\* depend on the lap counter)
TorcsSample(t, lap_id) == [lap_id |-> lap_id, t |-> t]

\* ---- faulty variant, used to test the properties below: any drop of
\* distRaced counts as a lap
lap_detected_NoMargin(dist_raced) == dist_raced < last_dist_raced

\* `if dist_raced < self.last_dist_raced - 100`
lap_detected(dist_raced) == dist_raced < last_dist_raced - 100

\* run() up to the loop: the client is created (or not), the session info
\* is emitted, the LapBuffer is created, running = True
StartTorcs ==
    /\ backend = "torcs"
    /\ pc = "idle"
    /\ \E connected \in BOOLEAN :
          IF connected
          THEN /\ client' = "connected"
               /\ status_update' = status_update
                    \o <<Status("Connecting to TORCS...", <<>>),
                         Status("Connected! AI driver active...", <<>>)>>
               /\ session_info_update' =
                    Append(session_info_update, [track |-> "TORCS Track"])
               /\ running' = TRUE
               /\ pc' = "loop"
          ELSE /\ status_update' = status_update
                    \o <<Status("Connecting to TORCS...", <<>>),
                         Status("ERROR: Could not connect to TORCS on port ",
                                <<>>)>>
               /\ pc' = "done"
               /\ UNCHANGED <<client, session_info_update, running>>
    /\ UNCHANGED <<backend, heap, lbVars, stop_called, sock, registered,
                   connection_id, current_lap_samples, last_lap_count, received,
                   arrivals, sent, lap_completed, realtime_sample,
                   live_data_update, mm, accMeta, sock_threads,
                   torcs_current_lap_id, last_dist_raced, fnVars,
                   appVars>>

\* One iteration of the control loop: the sensors are read, the lap counter
\* is advanced if distRaced fell by more than 100, the sample goes into the
\* LapBuffer and out on realtime_sample; the clock is the frame number.
TickTorcs ==
    /\ backend = "torcs"
    /\ pc = "loop"
    /\ running
    /\ Len(fed) < MaxTicks
    /\ \E dist_raced \in Dists :
          LET frame_count == Len(fed) + 1
              lap_id == IF lap_detected(dist_raced)
                        THEN torcs_current_lap_id + 1
                        ELSE torcs_current_lap_id
          IN  /\ torcs_current_lap_id' = lap_id
              /\ last_dist_raced' = dist_raced
              /\ add_sample(lap_id, frame_count)
              /\ fed' = Append(fed, [lap_id |-> lap_id, t |-> frame_count,
                                     dist_raced |-> dist_raced])
              /\ lap_completed' = on_lap_complete'
              /\ realtime_sample' =
                   Append(realtime_sample, TorcsSample(frame_count, lap_id))
              /\ live_data_update' =
                   IF frame_count % 10 = 0
                   THEN live_data_update \cup {[current_lap |-> lap_id + 1]}
                   ELSE live_data_update
    /\ UNCHANGED <<backend, pc, running, stop_called, sock, registered,
                   connection_id, current_lap_samples, last_lap_count, received,
                   arrivals, sent, status_update, acVars, accMeta, sock_threads,
                   client, fnVars,
                   appVars>>

\* A call of the client raises inside the loop: except Exception reports,
\* the finally block shuts the client down and reports
TickTorcsRaises ==
    /\ backend = "torcs"
    /\ pc = "loop"
    /\ running
    /\ Len(fed) < MaxTicks
    /\ client' = "shutdown"
    /\ status_update' = status_update
         \o <<Status("Error: ", <<>>), Status("Disconnected from TORCS", <<>>)>>
    /\ pc' = "done"
    /\ UNCHANGED <<backend, heap, lbVars, running, stop_called, sock,
                   registered, connection_id, current_lap_samples,
                   last_lap_count, received, arrivals, sent, lap_completed,
                   realtime_sample, live_data_update, acVars, accMeta,
                   sock_threads, torcs_current_lap_id, last_dist_raced, fnVars,
                   appVars>>

\* `while self.running` finds the flag cleared: the finally block
LoopExitTorcs ==
    /\ backend = "torcs"
    /\ pc = "loop"
    /\ ~running
    /\ client' = "shutdown"
    /\ status_update' =
         Append(status_update, Status("Disconnected from TORCS", <<>>))
    /\ pc' = "done"
    /\ UNCHANGED <<backend, heap, lbVars, running, stop_called, sock,
                   registered, connection_id, current_lap_samples,
                   last_lap_count, received, arrivals, sent, lap_completed,
                   realtime_sample, live_data_update, acVars, accMeta,
                   sock_threads, torcs_current_lap_id, last_dist_raced, fnVars,
                   appVars>>

\* ------------------------------------------------------------ MainWindow
\* QTableWidget(8, 2): the rows of the lap-time table
RowCount == 8
Min(a, b) == IF a < b THEN a ELSE b

\* MainWindow.__init__: every row shows the placeholder
InitUi ==
    /\ lap_table = [row \in 0..(RowCount - 1) |-> None]
    /\ table_writes = <<>>
    /\ ui_delivered = 0

\* MainWindow.handle_lap_complete(lap_id, samples): an empty list is
\* dropped; the lap time is the clock of the last sample minus the clock of
\* the first; it goes into row min(lap_id - 1, rowCount - 1) if that row is
\* not negative
handle_lap_complete(lap_id, list) ==
    IF list = <<>> THEN UNCHANGED <<lap_table, table_writes>>
    ELSE LET lap_time == list[Len(list)].t - list[1].t
             row == Min(lap_id - 1, RowCount - 1)
         IN  IF row >= 0
             THEN /\ lap_table' = [lap_table EXCEPT ![row] = lap_time]
                  /\ table_writes' =
                       Append(table_writes,
                              [row |-> row, lap_time |-> lap_time,
                               lap_id |-> lap_id])
             ELSE UNCHANGED <<lap_table, table_writes>>

\* The slot runs in the GUI thread for the next lap_completed emission of
\* the worker (main.py connects the signal to it)
HandleLapComplete ==
    /\ ui_delivered < Len(lap_completed)
    /\ LET e == lap_completed[ui_delivered + 1]
       IN  handle_lap_complete(e.lap_id, heap[e.samples])
    /\ ui_delivered' = ui_delivered + 1
    /\ UNCHANGED <<backend, heap, lbVars, accVars, acVars, accMeta,
                   sock_threads, torcsVars, fnVars, aiVars, ttsVars>>

\* ------------------------------------------------- AIRaceEngineerWorker
\* Everything of the program the AI worker leaves alone
nonAiVars == <<backend, heap, lbVars, accVars, acVars, accMeta, sock_threads,
               torcsVars, fnVars, uiVars, ttsVars>>

\* The state of a task: awaiting queue.get ("get"), awaiting the language
\* model ("llm", with the query being answered), "finished", "cancelled"
TaskAt(state, query) == [state |-> state, query |-> query]
NoTask == TaskAt("none", 0)

\* A queue attribute: None until run() creates the asyncio.Queue
NoQueue == [exists |-> FALSE, items |-> <<>>]
Queue(items) == [exists |-> TRUE, items |-> items]

\* AIRaceEngineerWorker.__init__
InitAi ==
    /\ ai_pc = "idle"
    /\ ai_running = FALSE
    /\ event_loop = "none"
    /\ telemetry_queue = NoQueue
    /\ query_queue = NoQueue
    /\ telemetry_task = NoTask
    /\ query_task = NoTask
    /\ ai_commentary = <<>>
    /\ taken = <<>>
    /\ submitted = 0
    /\ caller_errors = {}

\* run(): self._running = True, status
AiRun ==
    /\ backend = "ai"
    /\ ai_pc = "idle"
    /\ ai_running' = TRUE
    /\ ai_pc' = "new_loop"
    /\ UNCHANGED <<event_loop, telemetry_queue, query_queue, telemetry_task,
                   query_task, ai_commentary, taken, submitted, caller_errors,
                   nonAiVars>>

\* run(): self._event_loop = asyncio.new_event_loop()
AiNewEventLoop ==
    /\ backend = "ai"
    /\ ai_pc = "new_loop"
    /\ event_loop' = "open"
    /\ ai_pc' = "queues"
    /\ UNCHANGED <<ai_running, telemetry_queue, query_queue, telemetry_task,
                   query_task, ai_commentary, taken, submitted, caller_errors,
                   nonAiVars>>

\* run(): the two queues are created
AiCreateQueues ==
    /\ backend = "ai"
    /\ ai_pc = "queues"
    /\ telemetry_queue' = Queue(<<>>)
    /\ query_queue' = Queue(<<>>)
    /\ ai_pc' = "agents"
    /\ UNCHANGED <<ai_running, event_loop, telemetry_task, query_task,
                   ai_commentary, taken, submitted, caller_errors, nonAiVars>>

\* run(): _initialize_agents and the session context; if one of them
\* raises, the except clause reports and the finally block closes the loop
\* (self._running stays as it is)
AiInitializeAgents ==
    /\ backend = "ai"
    /\ ai_pc = "agents"
    /\ \E raises \in BOOLEAN :
          IF raises
          THEN /\ event_loop' = "closed"
               /\ ai_pc' = "done"
          ELSE /\ ai_pc' = "loop"
               /\ UNCHANGED event_loop
    /\ UNCHANGED <<ai_running, telemetry_queue, query_queue, telemetry_task,
                   query_task, ai_commentary, taken, submitted, caller_errors,
                   nonAiVars>>

\* _process_loop, `while self._running`: the two tasks are created and
\* awaited; with the flag cleared run_until_complete returns and the
\* finally block of run() closes the loop
AiProcessLoop ==
    /\ backend = "ai"
    /\ ai_pc = "loop"
    /\ IF ai_running
       THEN /\ telemetry_task' = TaskAt("get", 0)
            /\ query_task' = TaskAt("get", 0)
            /\ ai_pc' = "wait"
            /\ UNCHANGED event_loop
       ELSE /\ event_loop' = "closed"
            /\ ai_pc' = "done"
            /\ UNCHANGED <<telemetry_task, query_task>>
    /\ UNCHANGED <<ai_running, telemetry_queue, query_queue, ai_commentary,
                   taken, submitted, caller_errors, nonAiVars>>

\* _process_telemetry_queue: an item arrives within 0.1 s; detect_events
\* finds an event (the task then awaits the language model) or none
AiTelemetryGet ==
    /\ backend = "ai"
    /\ ai_pc = "wait"
    /\ telemetry_task.state = "get"
    /\ telemetry_queue.items # <<>>
    /\ telemetry_queue' = Queue(Tail(telemetry_queue.items))
    /\ \E event \in BOOLEAN :
          telemetry_task' = TaskAt(IF event THEN "llm" ELSE "finished", 0)
    /\ UNCHANGED <<ai_pc, ai_running, event_loop, query_queue, query_task,
                   ai_commentary, taken, submitted, caller_errors, nonAiVars>>

\* _process_telemetry_queue: asyncio.TimeoutError after 0.1 s without an item
AiTelemetryTimeout ==
    /\ backend = "ai"
    /\ ai_pc = "wait"
    /\ telemetry_task.state = "get"
    /\ telemetry_queue.items = <<>>
    /\ telemetry_task' = TaskAt("finished", 0)
    /\ UNCHANGED <<ai_pc, ai_running, event_loop, telemetry_queue, query_queue,
                   query_task, ai_commentary, taken, submitted, caller_errors,
                   nonAiVars>>

\* _handle_event: the model answers (a commentary with the event's
\* trigger), answers nothing, or raises (logged)
AiHandleEvent ==
    /\ backend = "ai"
    /\ ai_pc = "wait"
    /\ telemetry_task.state = "llm"
    /\ \E response \in BOOLEAN :
          ai_commentary' =
             IF response
             THEN Append(ai_commentary, [trigger |-> "event", query |-> 0])
             ELSE ai_commentary
    /\ telemetry_task' = TaskAt("finished", 0)
    /\ UNCHANGED <<ai_pc, ai_running, event_loop, telemetry_queue, query_queue,
                   query_task, taken, submitted, caller_errors, nonAiVars>>

\* The queries one call takes: those before the newest are dropped as stale
Drained(items) ==
    [k \in 1..Len(items) |-> [query |-> items[k], stale |-> k < Len(items)]]

\* _process_query_queue: a query arrives within 0.1 s; the queue is drained
\* and the newest query is the one processed
AiQueryGet ==
    /\ backend = "ai"
    /\ ai_pc = "wait"
    /\ query_task.state = "get"
    /\ query_queue.items # <<>>
    /\ taken' = taken \o Drained(query_queue.items)
    /\ query_task' = TaskAt("llm", query_queue.items[Len(query_queue.items)])
    /\ query_queue' = Queue(<<>>)
    /\ UNCHANGED <<ai_pc, ai_running, event_loop, telemetry_queue,
                   telemetry_task, ai_commentary, submitted, caller_errors,
                   nonAiVars>>

\* _process_query_queue: asyncio.TimeoutError after 0.1 s without a query
AiQueryTimeout ==
    /\ backend = "ai"
    /\ ai_pc = "wait"
    /\ query_task.state = "get"
    /\ query_queue.items = <<>>
    /\ query_task' = TaskAt("finished", 0)
    /\ UNCHANGED <<ai_pc, ai_running, event_loop, telemetry_queue, query_queue,
                   telemetry_task, ai_commentary, taken, submitted,
                   caller_errors, nonAiVars>>

\* How generate_reactive_response under wait_for(30 s) ends, and the
\* trigger of the commentary emitted for it
LlmOutcomes == {"driver_query", "driver_query_timeout", "driver_query_error"}

\* _process_query_queue: the response, the 30 s timeout or an exception of
\* the model: one ai_commentary emission each
AiQueryAnswer ==
    /\ backend = "ai"
    /\ ai_pc = "wait"
    /\ query_task.state = "llm"
    /\ \E trigger \in LlmOutcomes :
          ai_commentary' =
             Append(ai_commentary,
                    [trigger |-> trigger, query |-> query_task.query])
    /\ query_task' = TaskAt("finished", query_task.query)
    /\ UNCHANGED <<ai_pc, ai_running, event_loop, telemetry_queue, query_queue,
                   telemetry_task, taken, submitted, caller_errors, nonAiVars>>

\* task.cancel() on a pending task: CancelledError is thrown into its
\* await; it is not an Exception, so no except clause of the task runs
Cancelled(task) ==
    IF task.state \in {"get", "llm"} THEN TaskAt("cancelled", task.query)
    ELSE task

\* asyncio.wait(..., timeout=1.0, FIRST_COMPLETED) returns when one task is
\* done, or after 1 s with both still awaiting the language model (a
\* queue.get ends within 0.1 s); the tasks still pending are cancelled and
\* the loop goes round
AiWaitReturns ==
    /\ backend = "ai"
    /\ ai_pc = "wait"
    /\ \/ telemetry_task.state = "finished"
       \/ query_task.state = "finished"
       \/ telemetry_task.state = "llm" /\ query_task.state = "llm"
    /\ telemetry_task' = Cancelled(telemetry_task)
    /\ query_task' = Cancelled(query_task)
    /\ ai_pc' = "loop"
    /\ UNCHANGED <<ai_running, event_loop, telemetry_queue, query_queue,
                   ai_commentary, taken, submitted, caller_errors, nonAiVars>>

\* The guard of process_telemetry and process_driver_query
GuardPasses == event_loop # "none" /\ ai_running

\* What the guarded statement does in the calling thread: the queue's put
\* is handed to the loop, or the attribute access on None or the closed
\* loop raises
Enqueue(queue, item) ==
    IF ~queue.exists THEN queue
    ELSE IF event_loop = "closed" THEN queue
    ELSE Queue(Append(queue.items, item))
CallerError(queue) ==
    IF ~GuardPasses THEN {}
    ELSE IF ~queue.exists THEN {"AttributeError"}
    ELSE IF event_loop = "closed" THEN {"RuntimeError"}
    ELSE {}

\* process_driver_query(query), called from the GUI thread at any moment;
\* the queries are numbered in the order of the calls
process_driver_query ==
    /\ backend = "ai"
    /\ submitted < MaxQueries
    /\ submitted' = submitted + 1
    /\ query_queue' = IF GuardPasses THEN Enqueue(query_queue, submitted + 1)
                      ELSE query_queue
    /\ caller_errors' = caller_errors \cup CallerError(query_queue)
    /\ UNCHANGED <<ai_pc, ai_running, event_loop, telemetry_queue,
                   telemetry_task, query_task, ai_commentary, taken, nonAiVars>>

\* process_telemetry(telemetry_dict), called from the GUI thread
process_telemetry ==
    /\ backend = "ai"
    /\ submitted < MaxQueries
    /\ submitted' = submitted + 1
    /\ telemetry_queue' = IF GuardPasses
                          THEN Enqueue(telemetry_queue, submitted + 1)
                          ELSE telemetry_queue
    /\ caller_errors' = caller_errors \cup CallerError(telemetry_queue)
    /\ UNCHANGED <<ai_pc, ai_running, event_loop, query_queue,
                   telemetry_task, query_task, ai_commentary, taken, nonAiVars>>

\* AIRaceEngineerWorker.stop()
AiStop ==
    /\ backend = "ai"
    /\ ai_running
    /\ ai_running' = FALSE
    /\ UNCHANGED <<ai_pc, event_loop, telemetry_queue, query_queue,
                   telemetry_task, query_task, ai_commentary, taken, submitted,
                   caller_errors, nonAiVars>>

NextAi ==
    \/ AiRun
    \/ AiNewEventLoop
    \/ AiCreateQueues
    \/ AiInitializeAgents
    \/ AiProcessLoop
    \/ AiTelemetryGet
    \/ AiTelemetryTimeout
    \/ AiHandleEvent
    \/ AiQueryGet
    \/ AiQueryTimeout
    \/ AiQueryAnswer
    \/ AiWaitReturns
    \/ process_driver_query
    \/ process_telemetry
    \/ AiStop

\* ------------------------------------------------------ TTSOutputWorker
\* Everything of the program the TTS worker leaves alone
nonTtsVars == <<backend, heap, lbVars, accVars, acVars, accMeta, sock_threads,
                torcsVars, fnVars, uiVars, aiVars>>

\* TTSOutputWorker.__init__
InitTts ==
    /\ tts_pc = "idle"
    /\ tts_running = FALSE
    /\ message_queue = NoQueue
    /\ tts_signals = <<>>
    /\ spoken = 0

\* run() up to run_until_complete: the flag, the loop, the queue, the
\* Watson client and the audio output; if one of the two initialisers
\* raises, error_occurred is emitted and the finally block ends the run
TtsRun ==
    /\ backend = "tts"
    /\ tts_pc = "idle"
    /\ tts_running' = TRUE
    /\ message_queue' = Queue(<<>>)
    /\ \E raises \in BOOLEAN :
          IF raises
          THEN /\ tts_signals' = Append(tts_signals, "error_occurred")
               /\ tts_pc' = "done"
          ELSE /\ tts_pc' = "get"
               /\ UNCHANGED tts_signals
    /\ UNCHANGED <<spoken, nonTtsVars>>

\* speak(text), called from the main thread: blank text is ignored, and a
\* put handed to the loop after run() closed it is never executed; the
\* texts are numbered in the order of the calls
speak ==
    /\ backend = "tts"
    /\ spoken < MaxMessages
    /\ spoken' = spoken + 1
    /\ \E blank \in BOOLEAN :
          message_queue' =
             IF tts_running /\ message_queue.exists /\ ~blank
                /\ tts_pc # "done"
             THEN Queue(Append(message_queue.items, spoken + 1))
             ELSE message_queue
    /\ UNCHANGED <<tts_pc, tts_running, tts_signals, nonTtsVars>>

\* _process_loop: `while self._running`, a message arrives within 1 s
TtsGetMessage ==
    /\ backend = "tts"
    /\ tts_pc = "get"
    /\ tts_running
    /\ message_queue.items # <<>>
    /\ message_queue' = Queue(Tail(message_queue.items))
    /\ tts_pc' = "synth"
    /\ UNCHANGED <<tts_running, tts_signals, spoken, nonTtsVars>>

\* _process_loop: the flag is clear at the loop test; run() closes the
\* loop and cleans up
TtsLoopExit ==
    /\ backend = "tts"
    /\ tts_pc = "get"
    /\ ~tts_running
    /\ tts_pc' = "done"
    /\ UNCHANGED <<tts_running, message_queue, tts_signals, spoken,
                   nonTtsVars>>

\* _synthesize_and_play, first half: Watson returns the audio and
\* playback_started is emitted, or synthesize raises (error_occurred)
TtsSynthesize ==
    /\ backend = "tts"
    /\ tts_pc = "synth"
    /\ \E raises \in BOOLEAN :
          IF raises
          THEN /\ tts_signals' = Append(tts_signals, "error_occurred")
               /\ tts_pc' = "get"
          ELSE /\ tts_signals' = Append(tts_signals, "playback_started")
               /\ tts_pc' = "playing"
    /\ UNCHANGED <<tts_running, message_queue, spoken, nonTtsVars>>

\* What _play_audio_sync does with the audio: plays it to the end or
\* until the flag is cleared and returns, or raises (bad WAV, no device)
play_audio(raises) ==
    IF raises THEN "error_occurred" ELSE "playback_finished"

\* _synthesize_and_play, second half: _play_audio_async returns and
\* playback_finished is emitted, or it raises and the except clause emits
\* error_occurred
TtsPlay ==
    /\ backend = "tts"
    /\ tts_pc = "playing"
    /\ \E raises \in BOOLEAN :
          tts_signals' = Append(tts_signals, play_audio(raises))
    /\ tts_pc' = "get"
    /\ UNCHANGED <<tts_running, message_queue, spoken, nonTtsVars>>

\* TTSOutputWorker.stop(), at any moment of the run
TtsStop ==
    /\ backend = "tts"
    /\ tts_running
    /\ tts_pc # "idle"
    /\ tts_running' = FALSE
    /\ UNCHANGED <<tts_pc, message_queue, tts_signals, spoken, nonTtsVars>>

NextTts ==
    \/ TtsRun
    \/ speak
    \/ TtsGetMessage
    \/ TtsLoopExit
    \/ TtsSynthesize
    \/ TtsPlay
    \/ TtsStop

\* No function applied yet
InitFn ==
    /\ call = [fn |-> "none", args |-> <<>>]
    /\ result = <<>>

\* ------------------------------------- the functions, applied on their own
\* The bytes the buffers are made of: 0 and 1 (lengths), a letter, and a
\* byte that is not valid UTF-8
BufBytes == {0, 1, 65, 255}
RECURSIVE SeqsUpTo(_, _)
SeqsUpTo(S, n) ==
    IF n = 0 THEN {<<>>}
    ELSE LET shorter == SeqsUpTo(S, n - 1)
         IN  shorter \cup {Append(q, b) : q \in shorter, b \in S}
Buffers == SeqsUpTo(BufBytes, MaxBuf)
Offsets == 0..(MaxBuf + 1)

\* One application per run: the function and its arguments, then the result
Applied(fn, args) == [fn |-> fn, args |-> args]

\* AccPacketParser.read_string(data, offset)
ApplyReadString ==
    /\ backend = "functions"
    /\ call.fn = "none"
    /\ \E data \in Buffers, offset \in Offsets :
          /\ call' = Applied("read_string", <<data, offset>>)
          /\ result' = read_string(data, offset)
    /\ UNCHANGED <<backend, heap, lbVars, accVars, acVars, accMeta, sock_threads,
                   torcsVars, appVars>>

\* parse_realtime_car_update on a full packet with any gear byte, and the
\* sample _handle_car_update builds from the result
ApplyParseCarUpdate ==
    /\ backend = "functions"
    /\ call.fn = "none"
    /\ \E raw \in 0..255 :
          LET data == RealtimeCarUpdatePacket(0, raw, 0, 120)
          IN  /\ call' = Applied("parse_realtime_car_update", <<data>>)
              /\ result' = CarSample(1, parse_realtime_car_update(data).value)
    /\ UNCHANGED <<backend, heap, lbVars, accVars, acVars, accMeta, sock_threads,
                   torcsVars, appVars>>

\* The gear conversion of AcTelemetryWorker.run, and the sample built with it
ApplyDisplayGear ==
    /\ backend = "functions"
    /\ call.fn = "none"
    /\ \E raw_gear \in 0..MaxRawGear :
          /\ call' = Applied("display_gear", <<raw_gear>>)
          /\ result' = AcSample(1, 0, raw_gear)
    /\ UNCHANGED <<backend, heap, lbVars, accVars, acVars, accMeta, sock_threads,
                   torcsVars, appVars>>

\* A gear label of the live-data panel: "R", "N", or the decimal digits of
\* a number (kept as the number)
Label(kind, n) == [kind |-> kind, n |-> n]

\* MainWindow.update_live_data: the text after "Gear: "
gear_display(gear) ==
    IF gear = 0 THEN Label("R", 0)
    ELSE IF gear = 1 THEN Label("N", 0)
    ELSE Label("number", gear - 1)

\* The gear values the AI-driver sensor reports: reverse, neutral, six
\* forward gears
TorcsGears == (0 - 1)..6

\* One tick of the shared-memory worker on a live-data frame: the label the
\* window shows for live_data["gear"], and the gear of the tick's sample
ApplyUpdateLiveDataAc ==
    /\ backend = "functions"
    /\ call.fn = "none"
    /\ \E raw_gear \in 0..MaxRawGear :
          /\ call' = Applied("update_live_data(ac)", <<raw_gear>>)
          /\ result' = [shown |-> gear_display(AcLiveData(0, raw_gear).gear),
                        gear |-> AcSample(1, 0, raw_gear).gear]
    /\ UNCHANGED <<backend, heap, lbVars, accVars, acVars, accMeta, sock_threads,
                   torcsVars, appVars>>

\* One car update of the UDP worker that is due for live data: the label
\* shown for _emit_live_data's dict, and the gear of the packet's sample
ApplyUpdateLiveDataAcc ==
    /\ backend = "functions"
    /\ call.fn = "none"
    /\ \E raw \in 0..MaxRawGear :
          LET data == RealtimeCarUpdatePacket(0, raw, 0, 120)
              car_update == parse_realtime_car_update(data).value
          IN  /\ call' = Applied("update_live_data(acc)", <<raw>>)
              /\ result' = [shown |-> gear_display(LiveData(car_update).gear),
                            gear |-> CarSample(1, car_update).gear]
    /\ UNCHANGED <<backend, heap, lbVars, accVars, acVars, accMeta, sock_threads,
                   torcsVars, appVars>>

\* One tick of the AI-driver worker on a live-data frame: live_data["gear"]
\* is sample["gear"], which is int(torcs_data['gear'])
ApplyUpdateLiveDataTorcs ==
    /\ backend = "functions"
    /\ call.fn = "none"
    /\ \E gear \in TorcsGears :
          /\ call' = Applied("update_live_data(torcs)", <<gear>>)
          /\ result' = [shown |-> gear_display(gear), gear |-> gear]
    /\ UNCHANGED <<backend, heap, lbVars, accVars, acVars, accMeta, sock_threads,
                   torcsVars, appVars>>

NextFunctions ==
    \/ ApplyReadString
    \/ ApplyParseCarUpdate
    \/ ApplyDisplayGear
    \/ ApplyUpdateLiveDataAc
    \/ ApplyUpdateLiveDataAcc
    \/ ApplyUpdateLiveDataTorcs

\* main(game): one backend is chosen and driven
Init ==
    /\ backend \in {"lap_buffer", "acc", "acc_udp", "ac", "torcs", "functions", "ai", "tts"}
    /\ InitLapBuffer
    /\ InitAcc
    /\ InitAc
    /\ InitAccMeta
    /\ InitTorcs
    /\ InitFn
    /\ InitUi
    /\ InitAi
    /\ InitTts

NextLapBuffer == Feed

NextAc ==
    \/ StartAc
    \/ TickAc
    \/ stop
    \/ LoopExitAc

NextAcc ==
    \/ Start
    \/ RecvRegistrationResult
    \/ RecvRealtimeCarUpdate
    \/ RecvTimeout
    \/ stop
    \/ LoopExit

\* Every branch of the loop of the UDP worker
NextAccSession ==
    \/ Start
    \/ RecvRegistrationResult
    \/ RecvTrackData
    \/ RecvEntryListCar
    \/ RecvRealtimeCarUpdate
    \/ RecvUnhandled
    \/ RecvTimeout
    \/ stop
    \/ LoopExit

\* ------------------------------ AccTelemetryWorker of acc_udp.py (skeleton)
\* The datagrams the skeleton listener is sent
UdpDatagrams ==
    CarUpdatePackets \cup RegistrationResultPackets \cup TrackDataPackets

\* The finally block of the skeleton's run(): close the socket if there is
\* one, report
FinallyUdp(st) ==
    /\ sock' = IF sock = "none" THEN sock ELSE "closed"
    /\ sock_threads' = IF sock = "none" THEN sock_threads
                       ELSE sock_threads \cup {"run"}
    /\ status_update' = Append(st, Status("ACC telemetry listener stopped.", <<>>))
    /\ pc' = "done"

\* run() up to the loop: the socket is created, bound and given a timeout
\* inside a try; any failure is reported and run() returns
StartUdp ==
    /\ backend = "acc_udp"
    /\ pc = "idle"
    /\ \E outcome \in SocketOutcomes :
          IF outcome = "bound"
          THEN /\ sock' = "open"
               /\ sock_threads' = sock_threads \cup {"run"}
               /\ status_update' = status_update
                    \o <<Status("Starting ACC telemetry listener on ", <<>>),
                         Status("ACC UDP socket ready. Make sure ACC is broadcasting.",
                                <<>>)>>
               /\ running' = TRUE
               /\ pc' = "loop"
          ELSE /\ sock' = IF outcome = "bind_failed" THEN "open" ELSE "none"
               /\ sock_threads' = IF outcome = "bind_failed"
                                  THEN sock_threads \cup {"run"}
                                  ELSE sock_threads
               /\ status_update' = status_update
                    \o <<Status("Starting ACC telemetry listener on ", <<>>),
                         Status("ERROR: Could not open UDP socket: ", <<>>)>>
               /\ pc' = "done"
               /\ UNCHANGED running
    /\ UNCHANGED <<backend, heap, lbVars, stop_called, registered, connection_id,
                   current_lap_samples, last_lap_count, received, arrivals,
                   sent, lap_completed, realtime_sample, live_data_update,
                   acVars, accMeta, torcsVars, fnVars,
                   appVars>>

\* recvfrom of the skeleton is tried while the loop runs and the socket is
\* open
ReceivingUdp ==
    /\ backend = "acc_udp"
    /\ pc = "loop"
    /\ running
    /\ sock = "open"
    /\ now < MaxPackets

\* A datagram arrives: parse_acc_packet raises NotImplementedError, which
\* is reported and breaks the loop; the finally block follows
RecvUdpDatagram ==
    /\ ReceivingUdp
    /\ \E data \in UdpDatagrams :
          received' = Append(received, Datagram(data))
    /\ FinallyUdp(Append(status_update,
                         Status("parse_acc_packet() not implemented. ", <<>>)))
    /\ UNCHANGED <<backend, heap, lbVars, running, stop_called, registered,
                   connection_id, current_lap_samples, last_lap_count, arrivals,
                   sent, lap_completed, realtime_sample, live_data_update,
                   acVars, accMeta, torcsVars, fnVars,
                   appVars>>

\* except socket.timeout: continue
RecvUdpTimeout ==
    /\ ReceivingUdp
    /\ received' = Append(received, Timeout)
    /\ sock_threads' = sock_threads \cup {"run"}
    /\ UNCHANGED <<backend, heap, lbVars, pc, running, stop_called, sock,
                   registered, connection_id, current_lap_samples,
                   last_lap_count, arrivals, accOut, acVars, accMeta,
                   torcsVars, fnVars,
                   appVars>>

\* The loop ends: `while self.running` finds the flag cleared, or recvfrom
\* on the socket stop() has closed raises OSError (break); the finally
\* block follows
LoopExitUdp ==
    /\ backend = "acc_udp"
    /\ pc = "loop"
    /\ ~running \/ sock = "closed"
    /\ FinallyUdp(status_update)
    /\ UNCHANGED <<backend, heap, lbVars, running, stop_called, registered,
                   connection_id, current_lap_samples, last_lap_count, received,
                   arrivals, sent, lap_completed, realtime_sample,
                   live_data_update, acVars, accMeta, torcsVars, fnVars,
                   appVars>>

\* stop() of the skeleton, called once from the GUI thread at any moment:
\* it clears the flag and closes the socket if there is one
stopUdp ==
    /\ backend = "acc_udp"
    /\ ~stop_called
    /\ running' = FALSE
    /\ stop_called' = TRUE
    /\ sock' = IF sock = "none" THEN sock ELSE "closed"
    /\ sock_threads' = IF sock = "none" THEN sock_threads
                       ELSE sock_threads \cup {"stop"}
    /\ UNCHANGED <<backend, heap, lbVars, pc, registered, connection_id,
                   current_lap_samples, last_lap_count, received, arrivals,
                   accOut, acVars, accMeta, torcsVars, fnVars,
                   appVars>>

NextAccUdp ==
    \/ StartUdp
    \/ RecvUdpDatagram
    \/ RecvUdpTimeout
    \/ stopUdp
    \/ LoopExitUdp

\* The AI-driver worker
NextTorcs ==
    \/ StartTorcs
    \/ TickTorcs
    \/ TickTorcsRaises
    \/ stop
    \/ LoopExitTorcs

Next ==
    \/ NextLapBuffer
    \/ NextAcc
    \/ NextAc
    \/ NextAccUdp
    \/ NextTorcs
    \/ NextFunctions

Spec == Init /\ [][Next]_vars

\* A LapBuffer alone, fed by a caller
InitLapBufferRun == Init /\ backend = "lap_buffer"
SpecLapBuffer == InitLapBufferRun /\ [][NextLapBuffer]_vars

\* main("acc"): the UDP worker alone
InitAccRun == Init /\ backend = "acc"
SpecAcc == InitAccRun /\ [][NextAcc]_vars
\* The AI race engineer alone, with its callers
InitAiRun == Init /\ backend = "ai"
SpecAi == InitAiRun /\ [][NextAi]_vars

\* The TTS worker alone, with its callers
InitTtsRun == Init /\ backend = "tts"
SpecTts == InitTtsRun /\ [][NextTts]_vars

\* The skeleton UDP listener alone
InitAccUdpRun == Init /\ backend = "acc_udp"
SpecAccUdp == InitAccUdpRun /\ [][NextAccUdp]_vars

\* The AI-driver worker alone
InitTorcsRun == Init /\ backend = "torcs"
SpecTorcs == InitTorcsRun /\ [][NextTorcs]_vars

\* main("acc") with the track, entry-list and unhandled packets as well
SpecAccSession == InitAccRun /\ [][NextAccSession]_vars

\* main("ac"): the shared-memory worker alone
InitAcRun == Init /\ backend = "ac"
SpecAc == InitAcRun /\ [][NextAc]_vars
\* main("ac") with the window: the shared-memory worker and the slot
\* its lap_completed signal is connected to
NextAcUi == NextAc \/ HandleLapComplete
SpecAcUi == InitAcRun /\ [][NextAcUi]_vars

\* The shared-memory worker reading the synthetic buffer
NextAcSynthetic ==
    \/ StartAc
    \/ TickSynthetic
    \/ stop
    \/ LoopExitAc
SpecAcSynthetic == InitAcRun /\ [][NextAcSynthetic]_vars

\* The parser and conversion functions on their own
InitFunctions == Init /\ backend = "functions"
SpecFunctions == InitFunctions /\ [][NextFunctions]_vars

\* =====================================================================
\* Properties of LapBuffer
\* =====================================================================
FedLaps == [i \in 1..Len(fed) |-> fed[i].lap_id]
NonDecreasing(q) == \A i \in 1..(Len(q) - 1) : q[i] <= q[i + 1]

\* What the consumer was given, call by call: <<lap_id, samples at the call>>
Delivered(log) == [k \in 1..Len(log) |-> <<log[k].lap_id, log[k].got>>]

\* The ends of the maximal runs of equal lap ids that are followed by
\* another run: the calls after which the lap id changes.
RunEnds == {i \in 1..(Len(fed) - 1) : fed[i].lap_id # fed[i + 1].lap_id}
RunStart(b) ==
    LET before == {c \in RunEnds : c < b}
    IN  IF before = {} THEN 1
        ELSE (CHOOSE c \in before : \A d \in before : d <= c) + 1
KthRunEnd(k) == CHOOSE b \in RunEnds : Cardinality({c \in RunEnds : c <= b}) = k
\* The k-th run as <<lap_id, the samples of its calls in order>>
Run(k) ==
    LET b == KthRunEnd(k)
        a == RunStart(b)
    IN  <<fed[b].lap_id, [j \in 1..(b - a + 1) |-> Sample(fed[a + j - 1].t)]>>

\* C1: when the lap ids fed so far are non-decreasing, the callback has been
\* invoked exactly once per maximal run of equal lap ids except the last
\* run, in the order of the runs, with the run's lap id and exactly the
\* run's samples; the last run has not been emitted and is the buffer.
C1_OneEmissionPerCompletedRun ==
    NonDecreasing(FedLaps) =>
        /\ Len(on_lap_complete) = Cardinality(RunEnds)
        /\ \A k \in 1..Len(on_lap_complete) : Delivered(on_lap_complete)[k] = Run(k)
        /\ fed # <<>> =>
              LET a == RunStart(Len(fed))
              IN  heap[samples] =
                    [j \in 1..(Len(fed) - a + 1) |-> Sample(fed[a + j - 1].t)]

\* C1 witness: lap ids [1,1,1,2,2,3] were fed; lap 1 was emitted with 3
\* samples, then lap 2 with 2 samples, and nothing for lap 3.
C1_Witness ==
    /\ FedLaps = <<1, 1, 1, 2, 2, 3>>
    /\ Len(on_lap_complete) = 2
    /\ on_lap_complete[1].lap_id = 1 /\ Len(on_lap_complete[1].got) = 3
    /\ on_lap_complete[2].lap_id = 2 /\ Len(on_lap_complete[2].got) = 2

\* The call being made in a step of the LapBuffer
Called == Len(fed') = Len(fed) + 1
Arg == fed'[Len(fed')]

\* A regression step, and the example sequences
C4_RegressionStep ==
    (Called /\ current_lap_id # None /\ Arg.lap_id < current_lap_id) =>
        /\ on_lap_complete' = on_lap_complete
        /\ current_lap_id' = Arg.lap_id
        /\ heap'[samples'] = <<Sample(Arg.t)>>
C4_Example ==
    /\ (FedLaps = <<2, 2, 1, 1>> => on_lap_complete = <<>>)
    /\ (Len(fed) = 5 /\ SubSeq(FedLaps, 1, 4) = <<2, 2, 1, 1>> /\ FedLaps[5] > 1 =>
          Delivered(on_lap_complete) = << <<1, <<Sample(3), Sample(4)>> >> >>)
\* C4: a call with a lap id below current_lap_id emits nothing, makes
\* current_lap_id the new lap id and the buffer exactly the arriving sample;
\* lap ids [2,2,1,1] emit nothing, and after a later higher lap id lap 1 has
\* been emitted with its 2 samples and lap 2 never.
C4_RegressionDiscards == []C4_Example /\ [][C4_RegressionStep]_vars

\* C4 witness: [2,2,1,1,3] was fed and exactly lap 1 was emitted
C4_Witness ==
    /\ FedLaps = <<2, 2, 1, 1, 3>>
    /\ Len(on_lap_complete) = 1
    /\ on_lap_complete[1].lap_id = 1

\* Call n made the lap counter go backwards
Regression(n) == n > 1 /\ fed[n].lap_id < fed[n - 1].lap_id

\* C5: of two emissions with no regression from the call of the first to
\* the call of the second, the later one has the greater lap id; and every
\* emitted lap id is the lap id of the call before the emitting call (a lap
\* id no call carried is never emitted).
C5_IncreasingWithinForwardPass ==
    /\ \A i, j \in 1..Len(on_lap_complete) :
          (i < j /\ ~\E n \in (on_lap_complete[i].at)..(on_lap_complete[j].at) :
                        Regression(n))
             => on_lap_complete[i].lap_id < on_lap_complete[j].lap_id
    /\ \A k \in 1..Len(on_lap_complete) :
          /\ on_lap_complete[k].at \in 2..Len(fed)
          /\ on_lap_complete[k].lap_id = fed[on_lap_complete[k].at - 1].lap_id

\* C5 witness: the counter skipped lap 1 ([0,2,3]): laps 0 and 2 were
\* emitted, in this order, and no record exists for lap 1.
C5_Witness ==
    /\ FedLaps = <<0, 2, 3>>
    /\ Len(on_lap_complete) = 2
    /\ on_lap_complete[1].lap_id = 0
    /\ on_lap_complete[2].lap_id = 2

\* The first call, and a call with the current lap id
C6_FirstStep ==
    (Called /\ current_lap_id = None) =>
        /\ on_lap_complete' = <<>>
        /\ current_lap_id' = Arg.lap_id
        /\ heap'[samples'] = <<Sample(Arg.t)>>
C6_SameLapStep ==
    (Called /\ current_lap_id # None /\ Arg.lap_id = current_lap_id) =>
        /\ on_lap_complete' = on_lap_complete
        /\ current_lap_id' = current_lap_id
        /\ heap'[samples'] = Append(heap[samples], Sample(Arg.t))
\* C6: the first call emits nothing and leaves current_lap_id equal to its
\* lap id and the buffer holding exactly its sample; a call with the
\* current lap id appends its sample at the end of the buffer and emits
\* nothing.
C6_FirstAndSameLap == [][C6_FirstStep /\ C6_SameLapStep]_vars

\* C6 witness: a first sample with lap id above 0, then one more of that lap
C6_Witness ==
    /\ Len(fed) = 2
    /\ fed[1].lap_id = 2 /\ fed[2].lap_id = 2
    /\ current_lap_id = 2
    /\ Len(heap[samples]) = 2
    /\ on_lap_complete = <<>>

\* =====================================================================
\* Properties of AccTelemetryWorker, and of both adapters
\* =====================================================================
\* The add_sample call, resp. the car update, that arrived at clock t
CallAt(t) == CHOOSE c \in {fed[i] : i \in 1..Len(fed)} : c.t = t
ArrivalAt(t) == CHOOSE a \in {arrivals[i] : i \in 1..Len(arrivals)} : a.t = t
InArrivalOrder(q) == \A i \in 1..(Len(q) - 1) : q[i].t < q[i + 1].t

\* C2: every record emitted, through on_lap_complete or through
\* lap_completed, is keyed by a lap id such that every sample in it arrived
\* with exactly that lap id, and its samples are in arrival order.
C2_RecordsHoldTheirOwnLap ==
    /\ \A k \in 1..Len(on_lap_complete) :
          LET e == on_lap_complete[k]
          IN  /\ \A i \in 1..Len(e.got) : CallAt(e.got[i].t).lap_id = e.lap_id
              /\ InArrivalOrder(e.got)
    /\ \A k \in 1..Len(lap_completed) :
          LET e == lap_completed[k]
          IN  /\ \A i \in 1..Len(e.got) : ArrivalAt(e.got[i].t).laps = e.lap_id
              /\ InArrivalOrder(e.got)

\* The car update being handled in a step of the UDP worker
CarUpdated == Len(arrivals') = Len(arrivals) + 1
Upd == arrivals'[Len(arrivals')]

\* A lap boundary in the LapBuffer, and in the UDP worker
C3_LapBufferStep ==
    (Called /\ current_lap_id # None /\ Arg.lap_id > current_lap_id
       /\ heap[samples] # <<>>) =>
        /\ Delivered(on_lap_complete') =
             Append(Delivered(on_lap_complete), <<current_lap_id, heap[samples]>>)
        /\ current_lap_id' = Arg.lap_id
        /\ heap'[samples'] = <<Sample(Arg.t)>>
C3_CarUpdateStep ==
    (CarUpdated /\ Upd.car_index \in DOMAIN current_lap_samples
       /\ Upd.laps > last_lap_count[Upd.car_index]
       /\ heap[current_lap_samples[Upd.car_index]] # <<>>) =>
        /\ Delivered(lap_completed') =
             Append(Delivered(lap_completed),
                    <<last_lap_count[Upd.car_index],
                      heap[current_lap_samples[Upd.car_index]]>>)
        /\ last_lap_count'[Upd.car_index] = Upd.laps
        /\ Len(heap'[current_lap_samples'[Upd.car_index]]) = 1
        /\ heap'[current_lap_samples'[Upd.car_index]][1].t = Upd.t
\* C3: a call (or a car update) with a lap id above the current one, the
\* buffer being non-empty, emits exactly one record, keyed by the old lap
\* id and holding the samples buffered before; afterwards the current lap
\* id is the new one and the buffer holds only the arriving sample.
C3_BoundaryEmitsFinishedLap == [][C3_LapBufferStep /\ C3_CarUpdateStep]_vars

\* C7: a list handed to the consumer holds what it held when it was handed
\* over, and is none of the lists the engine still appends to.
C7_EmittedListsAreLeftAlone ==
    /\ \A k \in 1..Len(on_lap_complete) :
          /\ heap[on_lap_complete[k].samples] = on_lap_complete[k].got
          /\ on_lap_complete[k].samples # samples
    /\ \A k \in 1..Len(lap_completed) :
          /\ heap[lap_completed[k].samples] = lap_completed[k].got
          /\ \A c \in DOMAIN current_lap_samples :
                current_lap_samples[c] # lap_completed[k].samples

\* C7 witness: after an emission of the UDP worker, a later update of the
\* same car was buffered.
C7_Witness ==
    /\ Len(lap_completed) = 1
    /\ \E i \in 1..Len(arrivals) :
          /\ arrivals[i].t > lap_completed[1].at
          /\ arrivals[i].car_index = ArrivalAt(lap_completed[1].at).car_index

\* The cars of a record's samples, and the other cars in a step
C8_RecordOfOneCar ==
    \A k \in 1..Len(lap_completed) :
        LET e == lap_completed[k]
        IN  \A i \in 1..Len(e.got) :
                ArrivalAt(e.got[i].t).car_index = ArrivalAt(e.at).car_index
C8_OtherCarsStep ==
    CarUpdated =>
        \A c \in DOMAIN current_lap_samples \ {Upd.car_index} :
            /\ c \in DOMAIN current_lap_samples'
            /\ current_lap_samples'[c] = current_lap_samples[c]
            /\ heap'[current_lap_samples[c]] = heap[current_lap_samples[c]]
            /\ last_lap_count'[c] = last_lap_count[c]
\* C8: a record emitted at a car's lap boundary holds only samples built
\* from that car's updates, and handling a car's update leaves the buffer
\* and the lap counter of every other car as they were.
C8_CarsSegmentedIndependently == []C8_RecordOfOneCar /\ [][C8_OtherCarsStep]_vars

\* C8 witness: car 0's lap boundary came while car 1 had samples buffered
C8_Witness ==
    /\ Len(arrivals) = 3
    /\ arrivals[1].car_index = 0 /\ arrivals[2].car_index = 1
    /\ arrivals[3].car_index = 0
    /\ Len(lap_completed) = 1
    /\ 1 \in DOMAIN current_lap_samples
    /\ Len(heap[current_lap_samples[1]]) = 1

\* The datagram being handled in a step of the run loop
Handled(data) ==
    /\ Len(received') = Len(received) + 1
    /\ received'[Len(received')] = Datagram(data)

\* The step that handles a failed registration result
C9_FailureStep ==
    \A cid \in ConnIds, ro \in BOOLEAN, err \in ErrorTexts :
        Handled(RegistrationResultPacket(cid, FALSE, ro, err)) =>
            /\ status_update' =
                 Append(status_update, Status("Connection failed: ", err))
            /\ connection_id' = connection_id
            /\ sent' = sent
\* C9: handling a registration result with success = false and an error
\* text emits a status event carrying that text verbatim, leaves
\* connection_id as it was (unset, if it was unset) and sends nothing.
C9_FailureIsSurfacedOnly == [][C9_FailureStep]_vars

\* C9 witness: "wrong password" was reported and no connection id is held
C9_Witness ==
    /\ Len(status_update) = 2
    /\ status_update[2] = Status("Connection failed: ", StrWrongPassword)
    /\ connection_id = None
    /\ sent = <<RegistrationPacket>>

\* A registration failure has been reported
FailureSeen ==
    \E i \in 1..Len(status_update) : status_update[i].msg = "Connection failed: "
Registrations(out) == Cardinality({i \in 1..Len(out) : out[i] = RegistrationPacket})

\* A step after a registration failure
C10_NoRetryStep ==
    FailureSeen => Registrations(sent') = Registrations(sent)
\* C10: once a registration failure has been received, the session is not
\* registered by the worker's own doing and no further Registration packet
\* is sent, in particular not at a receive timeout.
C10_NoRetryAfterFailure == [][C10_NoRetryStep]_vars

\* =====================================================================
\* Properties of the registration session and of the end of run()
\* =====================================================================
\* The id of the most recent successful registration result received
IsSuccessResult(ev) ==
    ev.kind = "datagram" /\ ev.data \in RegistrationSuccessPackets
LastSuccessId(log) ==
    LET S == {i \in 1..Len(log) : IsSuccessResult(log[i])}
    IN  IF S = {} THEN None
        ELSE U32LE(log[CHOOSE i \in S : \A j \in S : j <= i].data, 1)
\* The packets that carry a connection id
IdPackets(cid) ==
    {RequestTrackDataPacket(cid), RequestEntryListPacket(cid),
     UnregistrationPacket(cid)}
\* The packets a step gives to sendto
NewlySent == {sent'[i] : i \in (Len(sent) + 1)..Len(sent')}

C11_SendStep ==
    \A p \in NewlySent :
        p # RegistrationPacket =>
            /\ LastSuccessId(received') # None
            /\ connection_id' = LastSuccessId(received')
            /\ p \in IdPackets(connection_id')
\* C11: every packet sent other than Registration is a RequestTrackData, a
\* RequestEntryList or an Unregister, is sent while the worker holds the
\* connection id of a successful registration result, and carries the id of
\* the most recent successful result.
C11_IdPacketsCarryHeldId == [][C11_SendStep]_vars

\* C11 witness: a run registered with id 7 and ended with its Unregister
C11_Witness ==
    /\ pc = "done"
    /\ sent = <<RegistrationPacket, RequestTrackDataPacket(7),
                RequestEntryListPacket(7), UnregistrationPacket(7)>>

C12_SuccessStep ==
    \A data \in RegistrationSuccessPackets :
        Handled(data) =>
            /\ registered'
            /\ connection_id' = U32LE(data, 1)
            /\ sent' = sent \o <<RequestTrackDataPacket(U32LE(data, 1)),
                                 RequestEntryListPacket(U32LE(data, 1))>>
C13_CloseStep ==
    (registered /\ sock = "open" /\ sock' = "closed") =>
        sent' = Append(sent, UnregistrationPacket(connection_id))
\* C13: whenever the socket of a registered session is closed (the loop
\* having ended by stop() or by an error), the step has sent the Unregister
\* packet with the held connection id, whatever the id is, 0 included.
C13_UnregisterBeforeClose == [][C13_CloseStep]_vars

\* C14: whenever run() of the UDP worker has ended with the socket created,
\* the socket is closed and the last status event is "Disconnected".
C14_SocketClosedOnEveryExit ==
    (backend = "acc" /\ pc \in {"done", "raised"} /\ sock # "none") =>
        /\ sock = "closed"
        /\ status_update # <<>>
        /\ status_update[Len(status_update)] = Status("Disconnected", <<>>)

C15_DatagramStep ==
    (pc = "loop" /\ Len(received') = Len(received) + 1
       /\ received'[Len(received')].kind = "datagram") => pc' = "loop"
\* C15: no inbound packet ends the run loop: after the step that handles a
\* datagram, whatever its bytes, run() is still in its loop.
C15_NoPacketEndsTheLoop == [][C15_DatagramStep]_vars

\* The car updates too short for the fixed-layout block
ShortCarUpdates == {data \in CarUpdatePackets : Len(data) < 100}
C16_ShortUpdateStep ==
    \A data \in ShortCarUpdates :
        Handled(data) =>
            UNCHANGED <<heap, current_lap_samples, last_lap_count,
                        realtime_sample, lap_completed, live_data_update>>
\* C16: the step that handles a RealtimeCarUpdate shorter than 100 bytes
\* emits no sample and no lap record, appends to no buffer and creates no
\* per-car state: the worker's state is as it was before the packet.
C16_ShortCarUpdateIsDropped == [][C16_ShortUpdateStep]_vars

\* C17: once stop() has been called, at whatever moment, the loop condition
\* self.running is false whenever run() is in its loop, so that the next
\* timeout or tick ends the loop.
C17_StopIsNotLost ==
    (stop_called /\ pc = "loop") => ~running

\* Forward lap boundaries observed: by the polling loop, and per car by the
\* UDP worker
ForwardBoundariesFed ==
    Cardinality({i \in 1..(Len(fed) - 1) : fed[i + 1].lap_id > fed[i].lap_id})
IsCar(c, a) == a.car_index = c
CarArrivals(c) == SelectSeq(arrivals, LAMBDA a : IsCar(c, a))
ForwardBoundariesOfCar(c) ==
    Cardinality({i \in 1..(Len(CarArrivals(c)) - 1) :
                    CarArrivals(c)[i + 1].laps > CarArrivals(c)[i].laps})
RECURSIVE SumOver(_, _)
SumOver(F(_), S) ==
    IF S = {} THEN 0
    ELSE LET x == CHOOSE y \in S : TRUE IN F(x) + SumOver(F, S \ {x})
C18_Count ==
    /\ backend = "ac" => Len(lap_completed) = ForwardBoundariesFed
    /\ backend = "acc" =>
          Len(lap_completed) = SumOver(ForwardBoundariesOfCar, Cars)
C18_ShutdownStep ==
    pc' \notin {"idle", "loop"} => lap_completed' = lap_completed
\* C18: no step that ends run(), and none after it, emits a lap record (the
\* lap in progress is discarded), and at every moment the number of lap
\* records emitted equals the number of forward lap boundaries observed.
C18_NoFlushOnStop == []C18_Count /\ [][C18_ShutdownStep]_vars

\* run() got past "Connecting" without a socket to send the registration on
SocketUnavailable == backend = "acc" /\ pc # "idle" /\ sent = <<>>
\* C19: when the socket cannot be created or bound, a status event after
\* "Connecting to ACC..." reports the failure, no packet is processed, no
\* sample and no lap record is emitted, and run() has ended.
C19_SocketFailureIsReported ==
    SocketUnavailable =>
        /\ \E i \in 1..Len(status_update) :
              status_update[i].msg # "Connecting to ACC..."
        /\ received = <<>>
        /\ realtime_sample = <<>>
        /\ lap_completed = <<>>
        /\ pc \in {"done", "raised"}

\* C20: once run() of the shared-memory worker has tried to open the
\* regions: without physics or graphics its last status is the error, it
\* has returned, and no tick was read, no sample and no lap record
\* emitted; with both, it went on ("Connected!") and pushed the session
\* info exactly when the static region was there.
C20_MissingRegions ==
    (backend = "ac" /\ pc # "idle") =>
        /\ (mm["physics"] = "none" \/ mm["graphics"] = "none") =>
              /\ pc = "done"
              /\ status_update[Len(status_update)] =
                   Status("ERROR: Could not connect to AC shared memory.", <<>>)
              /\ fed = <<>>
              /\ realtime_sample = <<>>
              /\ lap_completed = <<>>
        /\ (mm["physics"] # "none" /\ mm["graphics"] # "none") =>
              /\ status_update[2] = Status("Connected! Start driving...", <<>>)
              /\ \A i \in 1..Len(status_update) :
                    status_update[i].msg
                      # "ERROR: Could not connect to AC shared memory."
              /\ Len(session_info_update) =
                   IF mm["static"] = "none" THEN 0 ELSE 1

\* C20 witness: the graphics region alone was missing and run() returned
C20_Witness ==
    /\ backend = "ac"
    /\ pc = "done"
    /\ mm["physics"] = "open"
    /\ mm["graphics"] = "none"

Coordinates(q) == [i \in 1..Len(q) |-> q[i].x]
\* The clocks of the ticks that read completedLaps = lap, in tick order
TicksAt(lap) ==
    SelectSeq([i \in 1..Len(SyntheticLaps) |-> i],
              LAMBDA i : SyntheticLaps[i] = lap)
\* C22: once the six ticks 0,0,0,1,1,2 have been read, two records have
\* been emitted: the first holds exactly the three samples of the ticks at
\* completedLaps 0, with their coordinates in tick order, the second the
\* two of the ticks at 1; the sample of the tick at 2 is still buffered.
\* Before the fourth tick nothing is emitted, before the sixth one record.
C22_SyntheticBufferEndToEnd ==
    /\ Len(fed) <= 3 => lap_completed = <<>>
    /\ Len(fed) \in {4, 5} => Len(lap_completed) = 1
    /\ Len(fed) = 6 =>
          /\ Len(lap_completed) = 2
          /\ heap[samples] = <<Sample(6)>>
          /\ current_lap_id = 2
    /\ \A k \in 1..Len(lap_completed) :
          /\ lap_completed[k].lap_id = k - 1
          /\ Len(lap_completed[k].got) = Len(TicksAt(k - 1))
          /\ Coordinates(lap_completed[k].got) =
               [i \in 1..Len(TicksAt(k - 1)) |-> carCoordinates(TicksAt(k - 1)[i])]

\* C22 witness: all six ticks were read
C22_Witness ==
    /\ Len(fed) = 6
    /\ Len(lap_completed) = 2
    /\ Len(lap_completed[1].got) = 3
    /\ Len(lap_completed[2].got) = 2

\* =====================================================================
\* The UDP worker against a LapBuffer per car
\* =====================================================================
\* A LapBuffer of its own (current_lap_id = cur, samples = buf), fed the
\* updates of q in order as add_sample(laps, t): the callback invocations
\* <<lap_id, clocks of the samples>> it makes, appended to out.
RECURSIVE LapBufferRun(_, _, _, _)
LapBufferRun(q, cur, buf, out) ==
    IF q = <<>> THEN out
    ELSE LET a == Head(q)
             c == IF cur = None THEN a.laps ELSE cur
         IN  IF a.laps = c
             THEN LapBufferRun(Tail(q), c, Append(buf, a.t), out)
             ELSE IF a.laps > c
             THEN LapBufferRun(Tail(q), a.laps, <<a.t>>,
                               IF buf # <<>> THEN Append(out, <<c, buf>>) ELSE out)
             ELSE LapBufferRun(Tail(q), a.laps, <<a.t>>, out)
\* What the worker emitted for car c: <<lap_id, clocks of the samples>>
Clocks(q) == [i \in 1..Len(q) |-> q[i].t]
IsOfCar(c, e) == ArrivalAt(e.at).car_index = c
EmissionsOfCar(c) ==
    LET own == SelectSeq(lap_completed, LAMBDA e : IsOfCar(c, e))
    IN  [k \in 1..Len(own) |-> <<own[k].lap_id, Clocks(own[k].got)>>]
\* C23: for every car, the records the worker has emitted for it are the
\* records a LapBuffer fed with that car's updates in the same order would
\* have emitted: same keys, same samples, same behaviour on regression.
C23_WorkerRefinesLapBufferPerCar ==
    backend = "acc" =>
        \A c \in Cars :
            EmissionsOfCar(c) = LapBufferRun(CarArrivals(c), None, <<>>, <<>>)

\* A receive timeout is what the step got from recvfrom
TimedOut ==
    /\ Len(received') = Len(received) + 1
    /\ received'[Len(received')] = Timeout
C24_TimeoutStep ==
    (TimedOut /\ ~registered /\ running) =>
        sent' = Append(sent, RegistrationPacket)
C24_RegisteredStep ==
    registered => Registrations(sent') = Registrations(sent)
HandledOfType(types) ==
    /\ Len(received') = Len(received) + 1
    /\ received'[Len(received')].kind = "datagram"
    /\ Len(received'[Len(received')].data) >= 1
    /\ U8(received'[Len(received')].data, 0) \in types
C25_UnregisteredStep ==
    (~registered /\ HandledOfType({REALTIME_CAR_UPDATE, ENTRY_LIST_CAR,
                                   TRACK_DATA})) =>
        UNCHANGED <<realtime_sample, session_info_update, lap_completed,
                    heap, current_lap_samples, last_lap_count, car_data,
                    track_info>>
\* C25: a RealtimeCarUpdate, EntryListCar or TrackData packet that arrives
\* while the session is not registered emits no sample and no session
\* info and changes no car, track or lap state.
C25_DispatchOnlyWhileRegistered == [][C25_UnregisteredStep]_vars

\* The step got a datagram that is empty or whose first byte has no branch
UnhandledStep ==
    /\ Len(received') = Len(received) + 1
    /\ received'[Len(received')].kind = "datagram"
    /\ LET data == received'[Len(received')].data
       IN  IF Len(data) < 1 THEN TRUE ELSE U8(data, 0) \notin HandledTypes
C26_UnhandledStep ==
    UnhandledStep =>
        /\ pc' = "loop"
        /\ UNCHANGED <<sent, status_update, lap_completed, realtime_sample,
                       live_data_update, session_info_update, connection_id,
                       registered, car_data, track_info, heap,
                       current_lap_samples, last_lap_count>>
\* C26: a datagram whose first byte is none of the handled message types
\* is ignored: no signal is emitted, no packet is sent, and the connection
\* id, the car data, the track info and the lap buffers stay as they were.
C26_UnhandledPacketIsIgnored == [][C26_UnhandledStep]_vars

\* C26 witness: a registered session with a car's samples buffered has
\* taken a packet of an unhandled type
C26_Witness ==
    /\ Len(received) = 3
    /\ received[3] = Datagram(<<BROADCASTING_EVENT, 1>>)
    /\ registered
    /\ realtime_sample # <<>>
    /\ pc = "loop"

\* C30: the session info is pushed at most once in a run of the UDP
\* worker, however many TrackData packets arrive.
C30_SessionInfoAtMostOnce ==
    backend = "acc" => Len(session_info_update) <= 1

\* C27: read_string reads no byte outside the buffer; with fewer than two
\* bytes left it returns the empty string and the offset it was given; with
\* a declared length larger than what is left after the length field it
\* returns the empty string and the offset plus 2; otherwise it returns the
\* decoded bytes and offset + 2 + length, which is at most len(data).
C27_ReadStringStaysInBuffer ==
    call.fn = "read_string" =>
        LET data == call.args[1]
            offset == call.args[2]
            remaining == Len(data) - offset
        IN  /\ read_string_reads(data, offset) \subseteq 0..(Len(data) - 1)
            /\ IF remaining < 2 THEN result = << <<>>, offset >>
               ELSE LET length == data[offset + 1] + 256 * data[offset + 2]
                    IN  IF length > remaining - 2
                        THEN result = << <<>>, offset + 2 >>
                        ELSE /\ result[1] =
                                  SelectSeq([i \in 1..length |->
                                               data[offset + 2 + i]], IsAscii)
                             /\ result[2] = offset + 2 + length
                             /\ result[2] <= Len(data)

\* C27 witness: a one-byte string read from the middle of a buffer
C27_Witness ==
    /\ call.fn = "read_string"
    /\ call.args = << <<0, 1, 0, 65>>, 1 >>
    /\ result = << <<65>>, 4 >>

\* distRaced of the tick before (0, the initial last_dist_raced, before the
\* first tick), from the log of the ticks
PrevDistRaced == IF fed = <<>> THEN 0 ELSE fed[Len(fed)].dist_raced
C28_TickStep ==
    (backend = "torcs" /\ Len(fed') = Len(fed) + 1) =>
        LET tick == fed'[Len(fed')]
            boundary == tick.dist_raced < PrevDistRaced - 100
        IN  /\ torcs_current_lap_id' =
                  torcs_current_lap_id + (IF boundary THEN 1 ELSE 0)
            /\ tick.lap_id = torcs_current_lap_id'
            /\ current_lap_id # None => tick.lap_id >= current_lap_id
            /\ Len(lap_completed') =
                  Len(lap_completed) + (IF boundary THEN 1 ELSE 0)
            /\ boundary =>
                  lap_completed'[Len(lap_completed')].lap_id =
                      torcs_current_lap_id
\* C28: the lap counter of the AI-driver worker never decreases; a tick
\* raises it by exactly 1 if distRaced is more than 100 below the value of
\* the tick before, and leaves it alone otherwise; the lap id fed to the
\* LapBuffer is never below the buffer's current lap, and a tick emits one
\* lap record if it detected a boundary and none otherwise.
C28_DistanceLapCounter ==
    [][torcs_current_lap_id' >= torcs_current_lap_id /\ C28_TickStep]_vars

\* C28 witness: distRaced fell from 201 to 100: lap 0 was emitted and the
\* counter is 1; the next tick, exactly 100 lower, was no boundary
C28_Witness ==
    /\ backend = "torcs"
    /\ Len(fed) = 3
    /\ fed[1].dist_raced = 201 /\ fed[2].dist_raced = 100
    /\ fed[3].dist_raced = 0
    /\ torcs_current_lap_id = 1
    /\ Len(lap_completed) = 1
    /\ lap_completed[1].lap_id = 0

\* C29: the UDP socket of a worker is operated on by the thread that
\* executes run() only: no other thread ever calls one of its methods.
C29_SocketOwnedByRunThread == sock_threads \subseteq {"run"}

\* C31: after one or more add_sample calls the buffer is not empty,
\* current_lap_id is the lap_id of the latest call, every buffered sample
\* came from a call with that lap_id, and no record handed to
\* on_lap_complete has an empty list.
C31_BufferHoldsCurrentLap ==
    /\ fed # <<>> =>
          /\ heap[samples] # <<>>
          /\ current_lap_id = fed[Len(fed)].lap_id
          /\ \A i \in 1..Len(heap[samples]) :
                fed[heap[samples][i].t].lap_id = current_lap_id
    /\ \A k \in 1..Len(on_lap_complete) : on_lap_complete[k].got # <<>>

\* C31 witness: a boundary, then a regression, then two samples of the
\* lower lap
C31_Witness ==
    /\ backend = "lap_buffer"
    /\ Len(fed) = 5
    /\ fed[1].lap_id = 1 /\ fed[2].lap_id = 2 /\ fed[3].lap_id = 0
    /\ fed[4].lap_id = 0 /\ fed[5].lap_id = 1
    /\ Len(on_lap_complete) = 2
    /\ Len(heap[samples]) = 1

\* The lists that hold the sample of clock t; the lists handed over in
\* records; the lists that are the current buffer of a LapBuffer or a car
Holders(t) ==
    {ref \in 1..Len(heap) : \E i \in 1..Len(heap[ref]) : heap[ref][i].t = t}
RecordLists(log) == {log[k].samples : k \in 1..Len(log)}
CurrentLists ==
    {samples} \cup {current_lap_samples[c] : c \in DOMAIN current_lap_samples}
ReceivedClocks ==
    {fed[i].t : i \in 1..Len(fed)} \cup {arrivals[i].t : i \in 1..Len(arrivals)}
\* C32: every sample received is in exactly one list, and that list is an
\* emitted record, a current buffer, or a list dropped by a regression; no
\* list is both a record and a current buffer, and no two records are the
\* same list.
C32_SamplesConserved ==
    LET records == on_lap_complete \o lap_completed
    IN  /\ \A t \in ReceivedClocks : Cardinality(Holders(t)) = 1
        /\ RecordLists(records) \cap CurrentLists = {}
        /\ Cardinality(RecordLists(records)) = Len(records)

\* C33: when run() of the shared-memory worker has returned, no region it
\* opened is still open.
C33_RegionsClosedOnReturn ==
    (backend = "ac" /\ pc = "done") => \A r \in Regions : mm[r] # "open"

\* C34: every non-empty lap record the window has handled wrote its lap
\* time into a row of the lap-time table, whatever its lap_id.
C34_EveryRecordReachesTheTable ==
    /\ Len(table_writes) =
          Cardinality({k \in 1..ui_delivered : lap_completed[k].got # <<>>})
    /\ \A k \in 1..ui_delivered :
          lap_completed[k].got # <<>> =>
              \E w \in 1..Len(table_writes) :
                  table_writes[w].lap_id = lap_completed[k].lap_id

\* The label that denotes a canonical gear: R for -1, N for 0, n for n
CanonicalLabel(gear) ==
    IF gear = 0 - 1 THEN Label("R", 0)
    ELSE IF gear = 0 THEN Label("N", 0)
    ELSE Label("number", gear)
\* C35: for each adapter and every raw gear, the label the window shows
\* for the live data denotes the canonical gear of the sample made from
\* the same tick or packet.
C35_ShownGearIsSampleGear ==
    call.fn \in {"update_live_data(ac)", "update_live_data(acc)",
                 "update_live_data(torcs)"} =>
        result.shown = CanonicalLabel(result.gear)

\* =====================================================================
\* Properties of the AI race engineer
\* =====================================================================
\* The commentaries emitted for query q, and whether q is still in work
AnswersTo(q) ==
    Cardinality({k \in 1..Len(ai_commentary) :
                   /\ ai_commentary[k].query = q
                   /\ ai_commentary[k].trigger \in LlmOutcomes})
InWork(q) == query_task.state = "llm" /\ query_task.query = q
\* C36: a query that _process_query_queue took from the queue and kept for
\* processing never has more than one commentary, and has exactly one as
\* soon as the task that took it is no longer working on it.
C36_TakenQueryIsAnswered ==
    \A i \in 1..Len(taken) :
        ~taken[i].stale =>
            /\ AnswersTo(taken[i].query) <= 1
            /\ ~InWork(taken[i].query) => AnswersTo(taken[i].query) = 1

\* C37: whenever the guard of process_telemetry and process_driver_query
\* passes, both queues exist and the event loop is open.
C37_GuardImpliesQueuesAndOpenLoop ==
    GuardPasses =>
        /\ telemetry_queue.exists
        /\ query_queue.exists
        /\ event_loop = "open"

\* =====================================================================
\* Properties of the TTS worker
\* =====================================================================
\* How often `signal` was emitted
Emitted(signal) ==
    Cardinality({k \in 1..Len(tts_signals) : tts_signals[k] = signal})
\* C38: whenever the worker is about to take the next message, or has
\* ended, every playback_started has had its playback_finished; during a
\* playback exactly one is outstanding.
C38_StartedIsFinishedBeforeNext ==
    IF tts_pc = "playing"
    THEN Emitted("playback_started") = Emitted("playback_finished") + 1
    ELSE Emitted("playback_started") = Emitted("playback_finished")

====
